---- MODULE Spec2Model ----
(***************************************************************************)
(* A model of the artifact acquisition engine of antsibull-core:           *)
(*   - utils/http.py     retry_get / RetryGetManager                       *)
(*   - galaxy.py         GalaxyContext cache, GalaxyClient,                *)
(*                       CollectionDownloader                              *)
(*   - ansible_core.py   AnsibleCorePyPiClient                             *)
(* Every subsystem has its own specification (SpecRetry, SpecCtx, ...);    *)
(* the variables of the other subsystems stay at their idle value.         *)
(***************************************************************************)
EXTENDS Integers, Sequences, FiniteSets, TLC

VARIABLES
    \* ---- utils/http.py: one retry_get call ----
    mgr,          \* the RetryGetManager object and the locals of __aenter__
    given,        \* the max_retries argument and lib_ctx.max_retries of the call
    outcomes,     \* history: what aio_session.get did on each attempt, in order
    body,         \* the async-with body: "none", "running", "ok", "raised"
    \* ---- galaxy.py: the GalaxyContext cache ----
    cache,        \* _GALAXY_CONTEXT_CACHE: server -> None, a future or a context
    futures,      \* the futures made by _get_cached_galaxy_context, with their _init task
    creates,      \* history: server -> number of GalaxyContext.create calls started
    callers,      \* the tasks that call _get_cached_galaxy_context
    clients,      \* GalaxyClient objects: galaxy_server, context, params
    \* ---- galaxy.py / ansible_core.py: one acquisition call ----
    lib_ctx,      \* app_context.lib_ctx: max_retries, cache directories, trust flags
    registry,     \* what the collection registry and the package index answer
    cachedir,     \* the files of the cache directory: name -> None or content
    destdir,      \* the files of the download directory: name -> None or content
    acq,          \* the running call: which one, where it is, its locals, its result
    trail,        \* history: the GETs, digest checks and file copies of the call
    \* GalaxyClient.get_versions
    pages,        \* the chain of page documents the server holds
    lister,       \* the get_versions call: its client, its invocations, its result
    requests,     \* history: every GET the call sent, with its parameters
    \* GalaxyClient.get_latest_matching_version
    latest,       \* the call: the list it got, the constraint, the flag, its result
    \* verify_hash / verify_a_hash
    hashing,      \* the call: the file, the expected digest or digests, its result
    \* get_ansible_core
    core,         \* the call: its arguments, where it is, its locals, its result
    visited,      \* history: the states of the acquirer the call went through
    \* ---- ansible_core.py: retrieve calls that share the core cache ----
    corecache,    \* the tarball in the shared core cache: None or its bytes
    retrievers    \* the retrieve tasks: where each is, its own file, its offset

retryVars == <<mgr, given, outcomes, body>>
ctxVars == <<cache, futures, creates, callers, clients>>

acqVars == <<lib_ctx, registry, cachedir, destdir, acq, trail>>

versionsVars == <<pages, lister, requests>>

latestVars == <<latest>>

hashingVars == <<hashing>>

coreVars == <<core, visited>>

sharedVars == <<corecache, retrievers>>

vars == <<retryVars, ctxVars, acqVars, versionsVars, latestVars, hashingVars, coreVars,
          sharedVars>>

\* the variables of the other subsystems
notRetry == <<ctxVars, acqVars, versionsVars, latestVars, hashingVars, coreVars, sharedVars>>
notCtx == <<retryVars, acqVars, versionsVars, latestVars, hashingVars, coreVars, sharedVars>>
notAcq == <<retryVars, ctxVars, versionsVars, latestVars, hashingVars, coreVars, sharedVars>>
notVersions == <<retryVars, ctxVars, acqVars, latestVars, hashingVars, coreVars, sharedVars>>
notLatest == <<retryVars, ctxVars, acqVars, versionsVars, hashingVars, coreVars, sharedVars>>
notHashing == <<retryVars, ctxVars, acqVars, versionsVars, latestVars, coreVars, sharedVars>>
notCore == <<retryVars, ctxVars, acqVars, versionsVars, latestVars, hashingVars, sharedVars>>
notShared == <<retryVars, ctxVars, acqVars, versionsVars, latestVars, hashingVars, coreVars>>

(***************************************************************************)
(* Bounds of the model.                                                    *)
(***************************************************************************)
MaxRetries == 3      \* largest max_retries value that is tried
MaxTasks == 3        \* number of tasks of the event loop that ask for a context
MaxCallRetries == 2  \* largest lib_ctx.max_retries of a call that uses retry_get
MaxChunk == 2        \* largest lib_ctx.chunksize, in bytes
MaxPages == 3        \* longest chain of pages of a version list
MaxVersions == 3     \* longest version list handed to get_latest_matching_version
MaxBytes == 3        \* longest file handed to verify_hash and verify_a_hash

(***************************************************************************)
(* Values shared by all subsystems.                                        *)
(***************************************************************************)
\* Python's Optional values: None, or a value
None == <<>>
Some(x) == <<x>>
Get(opt) == opt[1]

\* HTTP status codes the remote side answers with
Statuses == {200, 400, 404, 500}

\* What one aio_session.get(...) can do: answer with a status, run into the
\* 20 s ClientTimeout, or raise any other exception (text = str(error)).
StatusOutcome(c) == [kind |-> "status", code |-> c, text |-> ""]
TimeoutOutcome == [kind |-> "timeout", code |-> 0, text |-> ""]
ErrorOutcome == [kind |-> "error", code |-> 0, text |-> "connection reset"]
Outcomes == {StatusOutcome(c) : c \in Statuses} \cup {TimeoutOutcome, ErrorOutcome}

\* the values of max_retries that are tried: negative, zero and positive
RetryValues == (0 - 1) .. MaxRetries

(***************************************************************************)
(* utils/http.py                                                           *)
(***************************************************************************)

\* mutant: the "at least 1" floor of retry_get is missing
EffectiveMaxRetries_NoFloor(max_retries, lib_ctx_max_retries) ==
    IF max_retries = None THEN lib_ctx_max_retries ELSE Get(max_retries)

\* retry_get(): default from lib_ctx, then "make sure max_retries is at least 1"
EffectiveMaxRetries(max_retries, lib_ctx_max_retries) ==
    LET n == IF max_retries = None THEN lib_ctx_max_retries ELSE Get(max_retries)
    IN  IF n > 1 THEN n ELSE 1

\* RetryGetManager.__init__ (called by retry_get)
RetryGetManager(max_retries, lib_ctx_max_retries, acceptable_error_codes) ==
    [ max_retries            |-> EffectiveMaxRetries(max_retries, lib_ctx_max_retries),
      acceptable_error_codes |-> acceptable_error_codes,
      response               |-> None,      \* self.response
      pc                     |-> "init",
      retry                  |-> 0,         \* loop variable of __aenter__
      errors                 |-> <<>>,      \* local list errors
      local                  |-> None,      \* local variable response
      status                 |-> "",        \* local variable status
      warnings               |-> 0,         \* number of warnings.warn calls
      open                   |-> 0,         \* responses obtained and not yet closed
      closed                 |-> 0,         \* response.close() calls
      returned               |-> None,      \* what __aenter__ returned
      raises                 |-> 0,         \* RuntimeErrors raised by __aenter__
      message                |-> None ]     \* the status list of the RuntimeError raised

\* top of `for retry in range(self.max_retries)`: next iteration, or the loop
\* is over and the RuntimeError after it is raised
LoopTop(m) ==
    IF m.retry < m.max_retries
    THEN [m EXCEPT !.pc = "get"]
    ELSE [m EXCEPT !.pc = "raised", !.raises = @ + 1, !.message = Some(m.errors)]

\* __aenter__ up to the first loop iteration
AEnterStart(m) == LoopTop([m EXCEPT !.errors = <<>>, !.retry = 0])

\* mutant: a timeout is not caught and retried but ends the call
SessionGet_TimeoutFatal(m, o) ==
    CASE o.kind = "status" ->
            [m EXCEPT !.pc = "got", !.local = Some(o.code), !.open = @ + 1]
      [] o.kind = "timeout" ->
            [m EXCEPT !.pc = "raised", !.raises = @ + 1, !.message = Some(<<"timeout">>)]
      [] OTHER ->
            [m EXCEPT !.pc = "failed", !.status = o.text]

\* `response = await self.aio_session.get(...)` and the two except clauses
SessionGet(m, o) ==
    CASE o.kind = "status" ->
            [m EXCEPT !.pc = "got", !.local = Some(o.code), !.open = @ + 1]
      [] o.kind = "timeout" ->
            [m EXCEPT !.pc = "failed", !.status = "timeout"]
      [] OTHER ->
            [m EXCEPT !.pc = "failed", !.status = o.text]

\* mutant: the acceptable error codes are ignored
Accepted_OnlyBelow400(status_code, acceptable_error_codes) ==
    status_code < 400

\* `status_code < 400 or status_code in self.acceptable_error_codes`
Accepted(status_code, acceptable_error_codes) ==
    status_code < 400 \/ status_code \in acceptable_error_codes

\* mutant: a response rejected for its status is not closed
CheckStatus_NoClose(m) ==
    IF Accepted(Get(m.local), m.acceptable_error_codes)
    THEN [m EXCEPT !.response = m.local, !.returned = m.local, !.pc = "entered"]
    ELSE [m EXCEPT !.status = ToString(Get(m.local)), !.local = None, !.pc = "failed"]

\* the lines after the get: hand the response back, or close it and fail
CheckStatus(m) ==
    IF Accepted(Get(m.local), m.acceptable_error_codes)
    THEN [m EXCEPT !.response = m.local, !.returned = m.local, !.pc = "entered"]
    ELSE [m EXCEPT !.status = ToString(Get(m.local)), !.local = None,
                   !.open = @ - 1, !.closed = @ + 1, !.pc = "failed"]

\* mutant: the list of errors is started afresh in every loop iteration
RecordFailure_ResetErrors(m) ==
    LET failed == m.retry + 1 = m.max_retries
        e == <<m.status>>
    IN  IF failed
        THEN [m EXCEPT !.errors = e, !.warnings = @ + 1,
                       !.pc = "raised", !.raises = @ + 1, !.message = Some(e)]
        ELSE [m EXCEPT !.errors = e, !.warnings = @ + 1, !.pc = "sleep"]

\* mutant: only the attempt that ends the call is warned about
RecordFailure_WarnsWhenFinal(m) ==
    LET failed == m.retry + 1 = m.max_retries
        e == Append(m.errors, m.status)
    IN  IF failed
        THEN [m EXCEPT !.errors = e, !.warnings = @ + 1,
                       !.pc = "raised", !.raises = @ + 1, !.message = Some(e)]
        ELSE [m EXCEPT !.errors = e, !.pc = "sleep"]

\* errors.append(status); warnings.warn(...); `if failed: break` and the raise
RecordFailure(m) ==
    LET failed == m.retry + 1 = m.max_retries
        e == Append(m.errors, m.status)
    IN  IF failed
        THEN [m EXCEPT !.errors = e, !.warnings = @ + 1,
                       !.pc = "raised", !.raises = @ + 1, !.message = Some(e)]
        ELSE [m EXCEPT !.errors = e, !.warnings = @ + 1, !.pc = "sleep"]

\* asyncio.sleep(...) is over: the for loop advances
AfterSleep(m) == LoopTop([m EXCEPT !.retry = @ + 1])

\* RetryGetManager.__aexit__
AExit(m) ==
    IF m.response # None
    THEN [m EXCEPT !.response = None, !.open = @ - 1, !.closed = @ + 1,
                   !.pc = "exited"]
    ELSE [m EXCEPT !.response = None, !.pc = "exited"]

\* one whole loop iteration of __aenter__ for the outcome o of its GET
Attempt(m, o) ==
    LET g == SessionGet(m, o)
        c == IF g.pc = "got" THEN CheckStatus(g) ELSE g
    IN  IF c.pc = "failed" THEN RecordFailure(c) ELSE c

\* __aenter__ run to its end against the outcomes seq of its GETs, one per
\* attempt: the manager when it has returned or raised, and the outcomes
\* that were not asked for
RECURSIVE RunAEnter(_, _)
RunAEnter(m, seq) ==
    IF m.pc = "sleep" THEN RunAEnter(AfterSleep(m), seq)
    ELSE IF m.pc = "get" /\ seq # <<>> THEN RunAEnter(Attempt(m, Head(seq)), Tail(seq))
    ELSE [mgr |-> m, rest |-> seq, seq |-> <<>>]

\* the runs of a whole `async with retry_get(...)` entry: every sequence of
\* GET outcomes that __aenter__ consumes, with the manager it ends in
RetryGetRuns(lib_ctx_max_retries, acceptable_error_codes, outs) ==
    LET m0 == AEnterStart(RetryGetManager(None, lib_ctx_max_retries, acceptable_error_codes))
        seqs == UNION {[1 .. n -> outs] : n \in 1 .. m0.max_retries}
    IN  {r \in {[RunAEnter(m0, q) EXCEPT !.seq = q] : q \in seqs} :
            r.rest = <<>> /\ r.mgr.pc \in {"entered", "raised"}}

(***************************************************************************)
(* SpecRetry: one retry_get call, statement by statement.                  *)
(***************************************************************************)
IdleRetry ==
    /\ mgr = RetryGetManager(None, 1, {})
    /\ given = [max_retries |-> None, lib_ctx_max_retries |-> 1]
    /\ outcomes = <<>>
    /\ body = "none"

InitRetry ==
    /\ \E mr \in {Some(n) : n \in RetryValues} \cup {None}, ctx \in RetryValues,
          acc \in {{}, {404}} :
          /\ mr # None => ctx = MaxRetries
          /\ mgr = RetryGetManager(mr, ctx, acc)
          /\ given = [max_retries |-> mr, lib_ctx_max_retries |-> ctx]
    /\ outcomes = <<>>
    /\ body = "none"

\* `async with retry_get(...)`: __aenter__ starts
RetryEnter ==
    /\ mgr.pc = "init"
    /\ mgr' = AEnterStart(mgr)
    /\ UNCHANGED <<given, outcomes, body>>
    /\ UNCHANGED notRetry

\* one aio_session.get call comes back
RetryGet ==
    /\ mgr.pc = "get"
    /\ \E o \in Outcomes :
          /\ mgr' = SessionGet(mgr, o)
          /\ outcomes' = Append(outcomes, o)
    /\ UNCHANGED <<given, body>>
    /\ UNCHANGED notRetry

\* the status of the response is looked at
RetryCheck ==
    /\ mgr.pc = "got"
    /\ mgr' = CheckStatus(mgr)
    /\ body' = IF mgr'.pc = "entered" THEN "running" ELSE body
    /\ UNCHANGED <<given, outcomes>>
    /\ UNCHANGED notRetry

\* the failure is recorded and warned about
RetryRecord ==
    /\ mgr.pc = "failed"
    /\ mgr' = RecordFailure(mgr)
    /\ UNCHANGED <<given, outcomes, body>>
    /\ UNCHANGED notRetry

\* the backoff sleep ends
RetrySleep ==
    /\ mgr.pc = "sleep"
    /\ mgr' = AfterSleep(mgr)
    /\ UNCHANGED <<given, outcomes, body>>
    /\ UNCHANGED notRetry

\* the body of the async-with statement completes or raises
RetryBody ==
    /\ mgr.pc = "entered"
    /\ body = "running"
    /\ \E r \in {"ok", "raised"} : body' = r
    /\ UNCHANGED <<mgr, given, outcomes>>
    /\ UNCHANGED notRetry

\* the async-with scope exits: __aexit__
RetryExit ==
    /\ mgr.pc = "entered"
    /\ body \in {"ok", "raised"}
    /\ mgr' = AExit(mgr)
    /\ UNCHANGED <<given, outcomes, body>>
    /\ UNCHANGED notRetry

NextRetry ==
    \/ RetryEnter
    \/ RetryGet
    \/ RetryCheck
    \/ RetryRecord
    \/ RetrySleep
    \/ RetryBody
    \/ RetryExit

(***************************************************************************)
(* galaxy.py: GalaxyContext.create and the context cache.                  *)
(***************************************************************************)
Servers == {"https://galaxy.example/", "https://hub.example/"}
Tasks == 1 .. MaxTasks
Clients == {"c1"}

\* urljoin(base, relative) for a base that ends in "/" and a relative path
UrlJoin(base, relative) == base \o relative

\* the JSON documents a server's api/ root answers with: the
\* available_versions map is missing, empty, or advertises some versions
ApiRoots ==
    { [available_versions |-> None],
      [available_versions |-> Some(<<>>)],
      [available_versions |-> Some([k \in {"v1"} |-> "v1/"])],
      [available_versions |-> Some([k \in {"v2"} |-> "v2/"])],
      [available_versions |-> Some([k \in {"v3"} |-> "v3/plugin/"])],
      [available_versions |-> Some([k \in {"v2", "v3"} |->
                                     IF k = "v2" THEN "v2/" ELSE "v3/plugin/"])] }

\* mutant: 'v2' is looked for first
SelectDialect_V2First(galaxy_server, galaxy_info) ==
    LET available_versions ==
            IF galaxy_info.available_versions = None
            THEN <<>>
            ELSE Get(galaxy_info.available_versions)
    IN  IF "v2" \in DOMAIN available_versions
        THEN [ok |-> TRUE, server |-> galaxy_server, version |-> "V2",
              base_url |-> UrlJoin(galaxy_server, "api/" \o available_versions["v2"])]
        ELSE IF "v3" \in DOMAIN available_versions
        THEN [ok |-> TRUE, server |-> galaxy_server, version |-> "V3",
              base_url |-> UrlJoin(galaxy_server, "api/" \o available_versions["v3"])]
        ELSE [ok |-> FALSE, server |-> galaxy_server, version |-> "",
              base_url |-> "neither Galaxy v2 API nor Galaxy v3 API"]

\* GalaxyContext.create after the api/ root was read: the dialect and the
\* base URL, or the RuntimeError
SelectDialect(galaxy_server, galaxy_info) ==
    LET available_versions ==
            IF galaxy_info.available_versions = None
            THEN <<>>
            ELSE Get(galaxy_info.available_versions)
    IN  IF "v3" \in DOMAIN available_versions
        THEN [ok |-> TRUE, server |-> galaxy_server, version |-> "V3",
              base_url |-> UrlJoin(galaxy_server, "api/" \o available_versions["v3"])]
        ELSE IF "v2" \in DOMAIN available_versions
        THEN [ok |-> TRUE, server |-> galaxy_server, version |-> "V2",
              base_url |-> UrlJoin(galaxy_server, "api/" \o available_versions["v2"])]
        ELSE [ok |-> FALSE, server |-> galaxy_server, version |-> "",
              base_url |-> "neither Galaxy v2 API nor Galaxy v3 API"]

\* entries of _GALAXY_CONTEXT_CACHE
FutureEntry(f) == [kind |-> "future", id |-> f]
ContextEntry(obj) == [kind |-> "context", id |-> obj]

\* mutant: the pending future is not put into the cache
StoreFuture_Forgotten(c, galaxy_server, f) == c

\* the cache after `_GALAXY_CONTEXT_CACHE[galaxy_server] = future`
StoreFuture(c, galaxy_server, f) == [c EXCEPT ![galaxy_server] = Some(FutureEntry(f))]

\* the cache after `_GALAXY_CONTEXT_CACHE[galaxy_server] = context` in _init
StoreContext(c, galaxy_server, obj) == [c EXCEPT ![galaxy_server] = Some(ContextEntry(obj))]

\* loop.create_future() together with the _init task made for it
NewFuture(galaxy_server) ==
    [ server |-> galaxy_server,
      state  |-> "pending",        \* "pending", "result" or "exception"
      value  |-> 0,                \* the context or exception object once done:
                                   \* the object made by future f is called f
      ctx    |-> SelectDialect(galaxy_server, [available_versions |-> None]),
      info   |-> None,             \* history: the galaxy_info that create read
      found_done |-> FALSE,        \* history: a call found the future done in the cache
      task   |-> "scheduled" ]     \* _init: "scheduled", "creating", "done"

\* GalaxyClient._update_from_context
UpdateFromContext(params, version) ==
    IF version = "V2" THEN params \cup {<<"format", "json">>} ELSE params

\* a task that has not called yet
IdleCaller ==
    [pc |-> "idle", server |-> "", client |-> None, fut |-> 0, result |-> 0]

IdleCtx ==
    /\ cache = [s \in Servers |-> None]
    /\ futures = <<>>
    /\ creates = [s \in Servers |-> 0]
    /\ callers = [t \in Tasks |-> IdleCaller]
    /\ clients = [c \in Clients |-> [galaxy_server |-> "", context |-> None, params |-> {}]]

\* GalaxyClient.__init__(aio_session, galaxy_server=...) for every client
InitCtx ==
    /\ cache = [s \in Servers |-> None]
    /\ futures = <<>>
    /\ creates = [s \in Servers |-> 0]
    /\ callers = [t \in Tasks |-> IdleCaller]
    /\ \E srv \in [Clients -> Servers] :
          clients = [c \in Clients |->
                        [galaxy_server |-> srv[c], context |-> None, params |-> {}]]

\* what a caller gets from a future that is done
FromFuture(caller, f) ==
    [caller EXCEPT !.pc = IF futures[f].state = "result" THEN "returned" ELSE "raised",
                   !.result = futures[f].value]

\* lines 164-165 of _ensure_context, for a caller that came through a client
ClientsAfter(caller) ==
    IF caller.client # None /\ caller.pc = "returned"
    THEN LET c == Get(caller.client)
             f == caller.fut
             version == IF f = 0
                        THEN (CHOOSE x \in {futures[i] : i \in 1 .. Len(futures)} :
                                 x.state = "result" /\ x.value = caller.result).ctx.version
                        ELSE futures[f].ctx.version
         IN  [clients EXCEPT ![c].context = Some(caller.result),
                             ![c].params = UpdateFromContext(@, version)]
    ELSE clients

\* _get_cached_galaxy_context up to its first suspension, called by task t
\* directly (client = None) or from GalaxyClient._ensure_context
CallCached(t, galaxy_server, client) ==
    LET context_or_future == cache[galaxy_server]
        me == [callers[t] EXCEPT !.server = galaxy_server, !.client = client]
    IN  IF context_or_future # None
        THEN IF Get(context_or_future).kind = "future"
             THEN LET f == Get(context_or_future).id
                  IN  IF futures[f].state = "pending"
                      THEN /\ callers' = [callers EXCEPT ![t] =
                                             [me EXCEPT !.pc = "awaiting", !.fut = f]]
                           /\ UNCHANGED <<cache, futures, clients>>
                      ELSE LET done == FromFuture([me EXCEPT !.fut = f], f)
                           IN  /\ callers' = [callers EXCEPT ![t] = done]
                               /\ clients' = ClientsAfter(done)
                               /\ futures' = [futures EXCEPT ![f].found_done = TRUE]
                               /\ UNCHANGED cache
             ELSE LET done == [me EXCEPT !.pc = "returned",
                                         !.result = Get(context_or_future).id]
                  IN  /\ callers' = [callers EXCEPT ![t] = done]
                      /\ clients' = ClientsAfter(done)
                      /\ UNCHANGED <<cache, futures>>
        ELSE LET f == Len(futures) + 1
             IN  /\ futures' = Append(futures, NewFuture(galaxy_server))
                 /\ cache' = StoreFuture(cache, galaxy_server, f)
                 /\ callers' = [callers EXCEPT ![t] =
                                   [me EXCEPT !.pc = "awaiting", !.fut = f]]
                 /\ UNCHANGED clients

\* a task calls _get_cached_galaxy_context directly
CallDirect ==
    /\ \E t \in Tasks, s \in Servers :
          /\ callers[t].pc = "idle"
          /\ CallCached(t, s, None)
    /\ UNCHANGED creates
    /\ UNCHANGED notCtx

\* a task calls GalaxyClient._ensure_context
EnsureContext ==
    /\ \E t \in Tasks, c \in Clients :
          /\ callers[t].pc = "idle"
          /\ IF clients[c].context # None
             THEN /\ callers' = [callers EXCEPT ![t] =
                                    [@ EXCEPT !.pc = "returned",
                                              !.server = clients[c].galaxy_server,
                                              !.client = Some(c),
                                              !.result = Get(clients[c].context)]]
                  /\ UNCHANGED <<cache, futures, clients>>
             ELSE CallCached(t, clients[c].galaxy_server, Some(c))
    /\ UNCHANGED creates
    /\ UNCHANGED notCtx

\* mutant: a failed creation takes its future out of the cache
InitDone_FailureDropped(c, galaxy_server, ok, obj) ==
    IF ok THEN StoreContext(c, galaxy_server, obj) ELSE [c EXCEPT ![galaxy_server] = None]

\* the cache when _init ends: the context is stored after set_result, and
\* nothing is stored in the except branch
InitDone(c, galaxy_server, ok, obj) ==
    IF ok THEN StoreContext(c, galaxy_server, obj) ELSE c

\* the _init task starts to run: GalaxyContext.create is called
InitStart ==
    /\ \E f \in 1 .. Len(futures) :
          /\ futures[f].task = "scheduled"
          /\ futures' = [futures EXCEPT ![f].task = "creating"]
          /\ creates' = [creates EXCEPT ![futures[f].server] = @ + 1]
    /\ UNCHANGED <<cache, callers, clients>>
    /\ UNCHANGED notCtx

\* `async with retry_get(aio_session, api_url, headers=...)` of
\* GalaxyContext.create: can the response be read, or does retry_get raise
CreateEntered == {run.mgr.pc = "entered" : run \in RetryGetRuns(MaxCallRetries, {}, Outcomes)}

\* GalaxyContext.create gets the api/ root through retry_get and returns or
\* raises; _init sets the future and, on success, the cache
InitFinish ==
    /\ \E f \in 1 .. Len(futures), entered \in CreateEntered :
          /\ futures[f].task = "creating"
          /\ \E galaxy_info \in ApiRoots :
             LET fut == futures[f]
                 sel == SelectDialect(fut.server, galaxy_info)
                 ok == entered /\ sel.ok
                 obj == f
             IN  /\ futures' = [futures EXCEPT
                                   ![f].task = "done",
                                   ![f].state = IF ok THEN "result" ELSE "exception",
                                   ![f].value = obj,
                                   ![f].ctx = IF entered THEN sel ELSE fut.ctx,
                                   ![f].info = IF entered THEN Some(galaxy_info) ELSE None]
                 /\ cache' = InitDone(cache, fut.server, ok, obj)
    /\ UNCHANGED <<creates, callers, clients>>
    /\ UNCHANGED notCtx

\* a task suspended in `await future` is resumed with the result or exception
Resume ==
    /\ \E t \in Tasks :
          /\ callers[t].pc = "awaiting"
          /\ futures[callers[t].fut].state # "pending"
          /\ LET done == FromFuture(callers[t], callers[t].fut)
             IN  /\ callers' = [callers EXCEPT ![t] = done]
                 /\ clients' = ClientsAfter(done)
    /\ UNCHANGED <<cache, futures, creates>>
    /\ UNCHANGED notCtx

NextCtx ==
    \/ CallDirect
    \/ EnsureContext
    \/ InitStart
    \/ InitFinish
    \/ Resume

(***************************************************************************)
(* utils/hashing.py and utils/io.py                                        *)
(***************************************************************************)
\* f.read(n): the next at most n bytes of what is left of a file, and the rest
Take(data, n) == SubSeq(data, 1, IF Len(data) < n THEN Len(data) ELSE n)
Drop(data, n) == SubSeq(data, (IF Len(data) < n THEN Len(data) ELSE n) + 1, Len(data))

\* hashlib: a hasher is told apart by its algorithm and everything it was fed;
\* two hex digests are equal exactly if both are (no collisions)
NewHasher(algorithm) == [algorithm |-> algorithm, data |-> <<>>]
HasherUpdate(hasher, chunk) == [hasher EXCEPT !.data = @ \o chunk]
Hexdigest(hasher) == <<hasher.algorithm, hasher.data>>

\* mutant: only the first chunk is fed to the hasher
HashFile_FirstChunk(hasher, rest, chunksize) ==
    HasherUpdate(hasher, Take(rest, chunksize))

\* `while chunk := await f.read(ctx.chunksize): hasher.update(chunk)`
RECURSIVE HashFile(_, _, _)
HashFile(hasher, rest, chunksize) ==
    LET chunk == Take(rest, chunksize)
    IN  IF chunk = <<>>
        THEN hasher
        ELSE HashFile(HasherUpdate(hasher, chunk), Drop(rest, chunksize), chunksize)

\* mutant: every file is taken to have the expected digest
VerifyHash_Accepting(content, hash_digest, algorithm, chunksize) == TRUE

\* verify_hash(filename, hash_digest, algorithm) for a file that holds content
VerifyHash(content, hash_digest, algorithm, chunksize) ==
    ~(Hexdigest(HashFile(NewHasher(algorithm), content, chunksize)) # hash_digest)

\* _PREFERRED_HASHES
PreferredHashes ==
    << [name |-> "sha256", algorithm |-> "sha256"],
       [name |-> "blake2b_256", algorithm |-> "blake2b"] >>

\* mutant: a digest that does not match lets the loop go on to the next
\* algorithm
RECURSIVE VerifyAHashFrom_AnyMatch(_, _, _, _)
VerifyAHashFrom_AnyMatch(i, content, hash_digests, chunksize) ==
    IF i > Len(PreferredHashes)
    THEN FALSE
    ELSE IF /\ PreferredHashes[i].name \in DOMAIN hash_digests
            /\ VerifyHash(content, hash_digests[PreferredHashes[i].name],
                          PreferredHashes[i].algorithm, chunksize)
    THEN TRUE
    ELSE VerifyAHashFrom_AnyMatch(i + 1, content, hash_digests, chunksize)

\* verify_a_hash(filename, hash_digests): the for loop from entry i on
RECURSIVE VerifyAHashFrom(_, _, _, _)
VerifyAHashFrom(i, content, hash_digests, chunksize) ==
    IF i > Len(PreferredHashes)
    THEN FALSE
    ELSE IF PreferredHashes[i].name \in DOMAIN hash_digests
    THEN VerifyHash(content, hash_digests[PreferredHashes[i].name],
                    PreferredHashes[i].algorithm, chunksize)
    ELSE VerifyAHashFrom(i + 1, content, hash_digests, chunksize)

VerifyAHash(content, hash_digests, chunksize) ==
    VerifyAHashFrom(1, content, hash_digests, chunksize)

\* copy_file(..., check_content=False), and the chunked write of a response
\* body: `while chunk := await f_in.read(chunksize): await f_out.write(chunk)`
RECURSIVE CopyChunks(_, _, _)
CopyChunks(written, rest, chunksize) ==
    LET chunk == Take(rest, chunksize)
    IN  IF chunk = <<>>
        THEN written
        ELSE CopyChunks(written \o chunk, Drop(rest, chunksize), chunksize)

(***************************************************************************)
(* galaxy.py: GalaxyClient.get_info, get_release_info and                  *)
(* CollectionDownloader.download; ansible_core.py:                         *)
(* AnsibleCorePyPiClient.retrieve.  One call runs at a time.               *)
(***************************************************************************)
\* the bytes of the artifact as published, and what else a file or a
\* response body may hold: a truncated artifact, nothing at all
Artifact == <<1, 2, 3>>
Contents == {Artifact, <<1, 2>>, <<>>}

\* the contents whose digest a registry may report
Published == {Artifact, <<1, 2>>}

\* the values of lib_ctx.chunksize and lib_ctx.max_retries that are tried
ChunkSizes == 1 .. MaxChunk
CallRetryValues == 1 .. MaxCallRetries

\* the outcomes of a GET in a whole acquisition call
AcqOutcomes == {StatusOutcome(200), StatusOutcome(404), StatusOutcome(500), TimeoutOutcome}

\* every way a retry_get call of an acquisition can go, by lib_ctx.max_retries
\* and by whether 404 is among the acceptable_error_codes
AcqRuns ==
    [r \in CallRetryValues |->
        [acc \in {{}, {404}} |-> RetryGetRuns(r, acc, AcqOutcomes)]]

\* the text of a GET outcome: the status, "timeout", or the exception text
OutcomeText(o) ==
    CASE o.kind = "status" -> ToString(o.code)
      [] o.kind = "timeout" -> "timeout"
      [] OTHER -> o.text

\* entries of the history
Ev(ev, target, name, detail) == [ev |-> ev, target |-> target, name |-> name, detail |-> detail]
GetEvents(target, seq) == [i \in 1 .. Len(seq) |-> Ev("GET", target, "", OutcomeText(seq[i]))]
VerifyEvent(target, name, ok) == Ev("verify", target, name, IF ok THEN "ok" ELSE "mismatch")
CopyEvent(target, name) == Ev("copy", target, name, "")

\* file names
CollectionFile == "community-general-1.0.0.tar.gz"
CoreVersion == "2.15.0"
WheelFile == "ansible_core-2.15.0-py3-none-any.whl"

\* tar_filenames of retrieve: the normalised spelling first
TarFilenames(ansible_core_version) ==
    << "ansible_core-" \o ansible_core_version \o ".tar.gz",
       "ansible-core-" \o ansible_core_version \o ".tar.gz" >>

\* the version strings a registry lists for the collection
VersionStrings == {"1.0.0", "2.0.0-a1", "2.0.0-a2", "2.0.0", "2.1.0-b2"}

\* the artifact file name of a version of the collection
CollectionFileOf(version) == "community-general-" \o version \o ".tar.gz"

FileNames == {CollectionFile, WheelFile} \cup
             {TarFilenames(CoreVersion)[i] : i \in 1 .. 2} \cup
             {CollectionFileOf(v) : v \in VersionStrings}

\* what a registry reports as the digest of content under an algorithm key
DigestOf(key, content) ==
    <<(IF key = "blake2b_256" THEN "blake2b" ELSE key), content>>

\* the digest maps of a package-index file record
DigestMaps(content) ==
    { [k \in keys |-> DigestOf(k, content)] :
        keys \in {{"sha256"}, {"blake2b_256"}, {"md5", "sha256"}} }

\* a file record of the package index
FileRecord(filename, digests) ==
    [filename |-> filename, url |-> "https://files.example/" \o filename, digests |-> digests]

\* release_info[ansible_core_version] of the package index: the version is not
\* listed (None), or it has a list of file records
ReleaseLists(content) ==
    {None} \cup
    UNION { { Some(<<>>),
              Some(<<FileRecord(WheelFile, d)>>),
              Some(<<FileRecord(TarFilenames(CoreVersion)[1], d)>>),
              Some(<<FileRecord(WheelFile, d), FileRecord(TarFilenames(CoreVersion)[2], d)>>),
              Some(<<FileRecord(TarFilenames(CoreVersion)[2], d),
                     FileRecord(TarFilenames(CoreVersion)[1], d)>>) } :
            d \in DigestMaps(content) }

\* the release information of the collection registry
CollectionRelease(content) ==
    [filename |-> CollectionFile,
     url      |-> "https://galaxy.example/download/" \o CollectionFile,
     digests  |-> [k \in {"sha256"} |-> DigestOf("sha256", content)]]

NoRelease == [filename |-> "", url |-> "", digests |-> <<>>]

\* a call before it starts
NewCall(kind, collection_cache) ==
    [ kind             |-> kind,
      pc               |-> "start",
      collection_cache |-> collection_cache,  \* self.collection_cache is set
      version          |-> "1.0.0",           \* the collection version asked for
      release          |-> NoRelease,         \* release_info / the matching file record
      served           |-> None,              \* history: the body of the download response
      result           |-> None,              \* the value returned
      error            |-> "" ]               \* the exception raised

NoFiles == [n \in FileNames |-> None]

\* the smallest LibContext, for the calls that read only one setting of it
IdleLibCtx ==
    [max_retries |-> 1, chunksize |-> 1, trust_collection_cache |-> FALSE,
     ansible_core_cache |-> FALSE, trust_ansible_core_cache |-> FALSE]

\* no acquisition call
IdleAcqCall ==
    /\ registry = [release_info |-> NoRelease, releases |-> None]
    /\ cachedir = NoFiles
    /\ destdir = NoFiles
    /\ acq = NewCall("none", FALSE)
    /\ trail = <<>>

IdleAcq == lib_ctx = IdleLibCtx /\ IdleAcqCall

\* GalaxyClient.get_info / get_release_info on their own
InitInfo ==
    /\ \E r \in CallRetryValues, kind \in {"get_info", "get_release_info"}, pub \in Published :
          /\ lib_ctx = [max_retries |-> r, chunksize |-> 1,
                        trust_collection_cache |-> FALSE,
                        ansible_core_cache |-> FALSE, trust_ansible_core_cache |-> FALSE]
          /\ registry = [release_info |-> CollectionRelease(pub), releases |-> None]
          /\ acq = NewCall(kind, FALSE)
    /\ cachedir = NoFiles
    /\ destdir = NoFiles
    /\ trail = <<>>

\* CollectionDownloader(aio_session, download_dir, collection_cache=...).download
InitDownload ==
    /\ \E r \in CallRetryValues, c \in ChunkSizes, trust \in BOOLEAN, cc \in BOOLEAN,
          pub \in Published, cached \in {None} \cup {Some(x) : x \in Contents} :
          /\ ~cc => cached = None
          /\ lib_ctx = [max_retries |-> r, chunksize |-> c,
                        trust_collection_cache |-> trust,
                        ansible_core_cache |-> FALSE, trust_ansible_core_cache |-> FALSE]
          /\ registry = [release_info |-> CollectionRelease(pub), releases |-> None]
          /\ cachedir = [NoFiles EXCEPT ![CollectionFile] = cached]
          /\ acq = NewCall("download", cc)
    /\ destdir = NoFiles
    /\ trail = <<>>

\* AnsibleCorePyPiClient(aio_session).retrieve(CoreVersion, download_dir)
InitRetrieve ==
    /\ \E r \in CallRetryValues, c \in ChunkSizes, trust \in BOOLEAN, cc \in BOOLEAN,
          pub \in Published,
          cached1 \in {None, Some(Artifact), Some(<<1, 2>>)},
          cached2 \in {None, Some(Artifact), Some(<<1, 2>>)} :
          /\ ~cc => (cached1 = None /\ cached2 = None /\ ~trust)
          /\ lib_ctx = [max_retries |-> r, chunksize |-> c,
                        trust_collection_cache |-> FALSE,
                        ansible_core_cache |-> cc, trust_ansible_core_cache |-> trust]
          /\ \E rel \in ReleaseLists(pub) :
                registry = [release_info |-> NoRelease, releases |-> rel]
          /\ cachedir = [NoFiles EXCEPT ![TarFilenames(CoreVersion)[1]] = cached1,
                                        ![TarFilenames(CoreVersion)[2]] = cached2]
          /\ acq = NewCall("retrieve", FALSE)
    /\ destdir = NoFiles
    /\ trail = <<>>

InitAcq == InitInfo \/ InitDownload \/ InitRetrieve

\* the call ends with an exception
Raise(call, error) == [call EXCEPT !.pc = "raised", !.error = error]

\* the call returns value
Return(call, value) == [call EXCEPT !.pc = "done", !.result = Some(value)]

\* what a caller of galaxy.py does with the response of
\* retry_get(..., acceptable_error_codes=[404]): "" when the body is read
GalaxyResponseError(run) ==
    IF run.mgr.pc = "raised" THEN "RuntimeError"
    ELSE IF Get(run.mgr.returned) = 404 THEN "NoSuchCollection"
    ELSE ""

\* mutant: the page requests do not list 404 as acceptable
GalaxyRuns_NotFoundRetried(max_retries) == AcqRuns[max_retries][{}]

\* the retry_get runs of the requests of galaxy.py to a collection
GalaxyRuns(max_retries) == AcqRuns[max_retries][{404}]

\* what the server answers at .../versions/{version}/: the release
\* information of that version
ReleaseInfoFor(reg, version) ==
    [reg.release_info EXCEPT
        !.filename = CollectionFileOf(version),
        !.url = "https://galaxy.example/download/" \o CollectionFileOf(version)]

\* GalaxyClient.get_info and GalaxyClient.get_release_info, also as the first
\* step of CollectionDownloader.download
GalaxyInfo ==
    /\ acq.kind \in {"get_info", "get_release_info", "download"}
    /\ acq.pc = "start"
    /\ \E run \in GalaxyRuns(lib_ctx.max_retries) :
          /\ trail' = trail \o GetEvents("release_info", run.seq)
          /\ acq' = IF GalaxyResponseError(run) # ""
                    THEN Raise(acq, GalaxyResponseError(run))
                    ELSE IF acq.kind = "download"
                    THEN [acq EXCEPT !.pc = "cache",
                                     !.release = ReleaseInfoFor(registry, acq.version)]
                    ELSE Return([acq EXCEPT !.release =
                                               ReleaseInfoFor(registry, acq.version)],
                                "collection_info")
    /\ UNCHANGED <<lib_ctx, registry, cachedir, destdir>>
    /\ UNCHANGED notAcq

\* mutant: the collection cache is never looked into
InCollectionCache_Ignored(call, files) == FALSE

\* download: is there a file of that name in the collection cache
InCollectionCache(call, files) ==
    call.collection_cache /\ files[call.release.filename] # None

\* mutant: a cached copy is used without looking at its digest
CachedCopyVerified_Skipped(cached_copy, sha256sum, chunksize) == TRUE

\* download: may the cached copy be used: `await verify_hash(cached_copy, sha256sum)`
CachedCopyVerified(cached_copy, sha256sum, chunksize) ==
    VerifyHash(cached_copy, sha256sum, "sha256", chunksize)

\* download: the lookup in the collection cache
DownloadCheckCache ==
    /\ acq.kind = "download"
    /\ acq.pc = "cache"
    /\ LET filename == acq.release.filename
           sha256sum == acq.release.digests["sha256"]
       IN  IF InCollectionCache(acq, cachedir)
           THEN LET ok == CachedCopyVerified(Get(cachedir[filename]), sha256sum,
                                             lib_ctx.chunksize)
                IN  IF ok
                    THEN /\ destdir' = [destdir EXCEPT ![filename] = cachedir[filename]]
                         /\ trail' = trail \o <<VerifyEvent("cache", filename, ok),
                                                CopyEvent("cache->dest", filename)>>
                         /\ acq' = Return(acq, filename)
                    ELSE /\ trail' = Append(trail, VerifyEvent("cache", filename, ok))
                         /\ acq' = [acq EXCEPT !.pc = "get"]
                         /\ UNCHANGED destdir
           ELSE /\ acq' = [acq EXCEPT !.pc = "get"]
                /\ UNCHANGED <<destdir, trail>>
    /\ UNCHANGED <<lib_ctx, registry, cachedir>>
    /\ UNCHANGED notAcq

\* download: the GET of release_url and the chunked write of the body
DownloadGet ==
    /\ acq.kind = "download"
    /\ acq.pc = "get"
    /\ \E run \in GalaxyRuns(lib_ctx.max_retries), served \in Contents :
          /\ trail' = trail \o GetEvents("download", run.seq)
          /\ IF GalaxyResponseError(run) # ""
             THEN /\ acq' = Raise(acq, GalaxyResponseError(run))
                  /\ UNCHANGED destdir
             ELSE /\ acq' = [acq EXCEPT !.pc = "verify", !.served = Some(served)]
                  /\ destdir' = [destdir EXCEPT ![acq.release.filename] =
                                    Some(CopyChunks(<<>>, served, lib_ctx.chunksize))]
    /\ UNCHANGED <<lib_ctx, registry, cachedir>>
    /\ UNCHANGED notAcq

\* download: "Verify the download", then "Copy downloaded collection into cache"
DownloadFinish ==
    /\ acq.kind = "download"
    /\ acq.pc = "verify"
    /\ LET filename == acq.release.filename
           sha256sum == acq.release.digests["sha256"]
           ok == VerifyHash(Get(destdir[filename]), sha256sum, "sha256", lib_ctx.chunksize)
       IN  IF ~ok
           THEN /\ acq' = Raise(acq, "DownloadFailure")
                /\ trail' = Append(trail, VerifyEvent("download", filename, ok))
                /\ UNCHANGED cachedir
           ELSE IF acq.collection_cache
           THEN /\ cachedir' = [cachedir EXCEPT ![filename] = destdir[filename]]
                /\ trail' = trail \o <<VerifyEvent("download", filename, ok),
                                       CopyEvent("dest->cache", filename)>>
                /\ acq' = Return(acq, filename)
           ELSE /\ trail' = Append(trail, VerifyEvent("download", filename, ok))
                /\ acq' = Return(acq, filename)
                /\ UNCHANGED cachedir
    /\ UNCHANGED <<lib_ctx, registry, destdir>>
    /\ UNCHANGED notAcq

\* mutant: only the first spelling is looked for
FirstCached_FirstSpelling(i, tar_filenames, files) ==
    IF files[tar_filenames[1]] # None THEN Some(tar_filenames[1]) ELSE None

\* retrieve: the spellings of tar_filenames from i on that are a file of the
\* core cache; the first of them is the one that is used
RECURSIVE FirstCached(_, _, _)
FirstCached(i, tar_filenames, files) ==
    IF i > Len(tar_filenames) THEN None
    ELSE IF files[tar_filenames[i]] # None THEN Some(tar_filenames[i])
    ELSE FirstCached(i + 1, tar_filenames, files)

\* retrieve: `lib_ctx.ansible_core_cache and lib_ctx.trust_ansible_core_cache`
TrustsCoreCache(ctx) == ctx.ansible_core_cache /\ ctx.trust_ansible_core_cache

\* retrieve: the trusted core cache is looked at before anything else
RetrieveTrusted ==
    /\ acq.kind = "retrieve"
    /\ acq.pc = "start"
    /\ LET found == IF TrustsCoreCache(lib_ctx)
                    THEN FirstCached(1, TarFilenames(CoreVersion), cachedir)
                    ELSE None
       IN  IF found # None
           THEN /\ destdir' = [destdir EXCEPT ![Get(found)] =
                                  Some(CopyChunks(<<>>, Get(cachedir[Get(found)]),
                                                  lib_ctx.chunksize))]
                /\ trail' = Append(trail, CopyEvent("cache->dest", Get(found)))
                /\ acq' = Return(acq, Get(found))
           ELSE /\ acq' = [acq EXCEPT !.pc = "release_info"]
                /\ UNCHANGED <<destdir, trail>>
    /\ UNCHANGED <<lib_ctx, registry, cachedir>>
    /\ UNCHANGED notAcq

\* the retry_get runs of the requests of ansible_core.py: no acceptable codes
PyPiRuns(max_retries) == AcqRuns[max_retries][{}]

\* retrieve: the for loop over release_info[ansible_core_version] from i on:
\* the first record whose filename is one of tar_filenames
RECURSIVE FirstMatching(_, _, _)
FirstMatching(i, records, tar_filenames) ==
    IF i > Len(records) THEN None
    ELSE IF records[i].filename \in {tar_filenames[k] : k \in 1 .. Len(tar_filenames)}
    THEN Some(records[i])
    ELSE FirstMatching(i + 1, records, tar_filenames)

\* retrieve: get_release_info(package_name) and the choice of the file record
RetrieveReleaseInfo ==
    /\ acq.kind = "retrieve"
    /\ acq.pc = "release_info"
    /\ \E run \in PyPiRuns(lib_ctx.max_retries) :
          /\ trail' = trail \o GetEvents("release_info", run.seq)
          /\ acq' = IF run.mgr.pc = "raised"
                    THEN Raise(acq, "RuntimeError")
                    ELSE IF registry.releases = None
                    THEN Raise(acq, "KeyError")
                    ELSE LET release == FirstMatching(1, Get(registry.releases),
                                                      TarFilenames(CoreVersion))
                         IN  IF release = None
                             THEN Raise(acq, "UnknownVersion")
                             ELSE [acq EXCEPT !.pc = "cache", !.release = Get(release)]
    /\ UNCHANGED <<lib_ctx, registry, cachedir, destdir>>
    /\ UNCHANGED notAcq

\* retrieve: is the chosen file in the core cache, and is its digest checked:
\* `lib_ctx.ansible_core_cache and "sha256" in digests` and os.path.isfile
InCoreCache(ctx, release, files) ==
    /\ ctx.ansible_core_cache
    /\ "sha256" \in DOMAIN release.digests
    /\ files[release.filename] # None

\* mutant: the cached file is used without a look at its digest
CachedPathVerified_Skipped(cached_path, digests, chunksize) == TRUE

\* retrieve: may the cached file be used: `await verify_a_hash(cached_path, digests)`
CachedPathVerified(cached_path, digests, chunksize) ==
    VerifyAHash(cached_path, digests, chunksize)

\* retrieve: the lookup in the core cache after the release information
RetrieveCheckCache ==
    /\ acq.kind = "retrieve"
    /\ acq.pc = "cache"
    /\ LET tar_filename == acq.release.filename
       IN  IF InCoreCache(lib_ctx, acq.release, cachedir)
           THEN LET ok == CachedPathVerified(Get(cachedir[tar_filename]),
                                             acq.release.digests, lib_ctx.chunksize)
                IN  IF ok
                    THEN /\ destdir' = [destdir EXCEPT ![tar_filename] =
                                           Some(CopyChunks(<<>>, Get(cachedir[tar_filename]),
                                                           lib_ctx.chunksize))]
                         /\ trail' = trail \o <<VerifyEvent("cache", tar_filename, ok),
                                                CopyEvent("cache->dest", tar_filename)>>
                         /\ acq' = Return(acq, tar_filename)
                    ELSE /\ trail' = Append(trail, VerifyEvent("cache", tar_filename, ok))
                         /\ acq' = [acq EXCEPT !.pc = "get"]
                         /\ UNCHANGED destdir
           ELSE /\ acq' = [acq EXCEPT !.pc = "get"]
                /\ UNCHANGED <<destdir, trail>>
    /\ UNCHANGED <<lib_ctx, registry, cachedir>>
    /\ UNCHANGED notAcq

\* retrieve: the GET of pypi_url, the chunked write of the body, the copy
\* into the core cache and the return of tar_path
RetrieveGet ==
    /\ acq.kind = "retrieve"
    /\ acq.pc = "get"
    /\ \E run \in PyPiRuns(lib_ctx.max_retries), served \in Contents :
          LET tar_filename == acq.release.filename
              written == Some(CopyChunks(<<>>, served, lib_ctx.chunksize))
          IN  IF run.mgr.pc = "raised"
              THEN /\ trail' = trail \o GetEvents("download", run.seq)
                   /\ acq' = Raise(acq, "RuntimeError")
                   /\ UNCHANGED <<destdir, cachedir>>
              ELSE /\ destdir' = [destdir EXCEPT ![tar_filename] = written]
                   /\ acq' = [Return(acq, tar_filename) EXCEPT !.served = Some(served)]
                   /\ IF lib_ctx.ansible_core_cache
                      THEN /\ cachedir' = [cachedir EXCEPT ![tar_filename] =
                                  Some(CopyChunks(<<>>, Get(written), lib_ctx.chunksize))]
                           /\ trail' = trail \o GetEvents("download", run.seq)
                                             \o <<CopyEvent("dest->cache", tar_filename)>>
                      ELSE /\ trail' = trail \o GetEvents("download", run.seq)
                           /\ UNCHANGED cachedir
    /\ UNCHANGED <<lib_ctx, registry>>
    /\ UNCHANGED notAcq

NextAcq ==
    \/ GalaxyInfo
    \/ DownloadCheckCache
    \/ DownloadGet
    \/ DownloadFinish
    \/ RetrieveTrusted
    \/ RetrieveReleaseInfo
    \/ RetrieveCheckCache
    \/ RetrieveGet

(***************************************************************************)
(* galaxy.py: GalaxyClient.get_versions and the chain of pages it follows. *)
(***************************************************************************)
GalaxyServer == "https://galaxy.example/"

\* the contexts GalaxyContext.create makes for that server: one per dialect
Contexts ==
    {ctx \in {SelectDialect(GalaxyServer, galaxy_info) : galaxy_info \in ApiRoots} : ctx.ok}

\* the collection asked for, "community.general", as its two parts
Collection == [namespace |-> "community", name |-> "general"]

\* collection.replace('.', '/')
CollectionPath(collection) == collection.namespace \o "/" \o collection.name

\* the values of a `next` field: null, "", a path on the server, a full URL
NullLink == [kind |-> "null", target |-> ""]
EmptyLink == [kind |-> "empty", target |-> ""]
RelativeLink(path) == [kind |-> "relative", target |-> path]
AbsoluteLink(url) == [kind |-> "absolute", target |-> url]

\* `if next_link:`
Truthy(next_link) == next_link.kind \in {"relative", "absolute"}

\* next_link.startswith('/')
StartsWithSlash(next_link) == next_link.kind = "relative"

\* where the server keeps page p of the version list, below the server root
PagePath(version, p) ==
    (IF version = "V2" THEN "api/v2/" ELSE "api/v3/plugin/")
       \o "collections/" \o CollectionPath(Collection) \o "/versions/"
       \o (IF p = 1 THEN "" ELSE "?page=" \o ToString(p))

\* the version strings a page can list
PageContents == {<<>>, <<"1.0.0">>, <<"2.0.0-beta.1", "1.1.0">>}

\* the version records of a page
Records(strings) == [i \in 1 .. Len(strings) |-> [version |-> strings[i]]]

\* the JSON document of page p of a chain of n pages
PageDocument(version, key, form, last, strings, p, n) ==
    LET link == IF p = n THEN last
                ELSE IF form = "relative"
                THEN RelativeLink(PagePath(version, p + 1))
                ELSE AbsoluteLink(UrlJoin(GalaxyServer, PagePath(version, p + 1)))
    IN  [ results |-> IF key = "results" THEN Some(Records(strings)) ELSE None,
          data    |-> IF key = "data" THEN Some(Records(strings)) ELSE None,
          next    |-> IF version = "V2" THEN Some(link) ELSE None,
          links   |-> IF version = "V2" THEN None ELSE Some([next |-> link]) ]

\* the finite chains of pages a server of the given dialect can hold
PageChains(version) ==
    UNION { { [p \in 1 .. n |-> PageDocument(version, key, form, last, strings[p], p, n)] :
                 strings \in [1 .. n -> PageContents],
                 key \in IF version = "V2" THEN {"results"} ELSE {"results", "data"},
                 form \in {"relative", "absolute"},
                 last \in {NullLink, EmptyLink} } :
            n \in 1 .. MaxPages }

\* the document the server holds at a URL
DocumentAt(chain, version, url) ==
    chain[CHOOSE p \in 1 .. Len(chain) : UrlJoin(GalaxyServer, PagePath(version, p)) = url]

\* one invocation of _get_galaxy_versions: its arguments and its local list
Frame(versions_url, add_params) ==
    [versions_url |-> versions_url, add_params |-> add_params, versions |-> <<>>]

\* mutant: the parameters are added whatever add_params says
RequestParams_AlwaysAdded(self_params, version, add_params) ==
    Some(IF version = "V2"
         THEN self_params \cup {<<"page_size", "100">>}
         ELSE self_params \cup {<<"limit", "50">>})

\* `params` of _get_galaxy_versions
RequestParams(self_params, version, add_params) ==
    IF add_params
    THEN Some(IF version = "V2"
              THEN self_params \cup {<<"page_size", "100">>}
              ELSE self_params \cup {<<"limit", "50">>})
    ELSE None

\* the GETs one retry_get call of _get_galaxy_versions sends
PageRequests(versions_url, params, seq) ==
    [i \in 1 .. Len(seq) |->
        [url |-> versions_url, params |-> params, attempt |-> i,
         status |-> OutcomeText(seq[i])]]

\* no get_versions call
IdleVersions ==
    /\ pages = <<>>
    /\ lister = [pc |-> "idle", context |-> None, params |-> {}, frames |-> <<>>,
                 retval |-> None, error |-> ""]
    /\ requests = <<>>

\* a client that has its context (given to __init__, or from _ensure_context)
\* and is about to run get_versions
InitVersions ==
    /\ \E context \in Contexts :
          /\ pages \in PageChains(context.version)
          /\ lister = [pc |-> "start", context |-> Some(context),
                       params |-> UpdateFromContext({}, context.version),
                       frames |-> <<>>, retval |-> None, error |-> ""]
    /\ requests = <<>>
    /\ lib_ctx \in {[IdleLibCtx EXCEPT !.max_retries = r] : r \in CallRetryValues}
    /\ IdleAcqCall

\* get_versions up to the call of _get_galaxy_versions
GetVersions ==
    /\ lister.pc = "start"
    /\ LET context == Get(lister.context)
           galaxy_url == UrlJoin(context.base_url,
                                 "collections/" \o CollectionPath(Collection) \o "/versions/")
       IN  lister' = [lister EXCEPT !.pc = "page",
                                    !.frames = <<Frame(galaxy_url, TRUE)>>]
    /\ UNCHANGED <<pages, requests>>
    /\ UNCHANGED notVersions

\* the lists of _get_galaxy_versions after the response was read
PageResults(version, collection_info) ==
    IF version = "V2"
    THEN [results |-> Get(collection_info.results),
          next_link |-> Get(collection_info.next)]
    ELSE [results |-> IF collection_info.data # None
                      THEN Get(collection_info.data)
                      ELSE Get(collection_info.results),
          next_link |-> Get(collection_info.links).next]

\* `for version_record in results: versions.append(version_record['version'])`
VersionsOf(results) == [i \in 1 .. Len(results) |-> results[i].version]

\* the caller's side of a finished _get_galaxy_versions: get_versions returns
\* the list, an outer _get_galaxy_versions waits to extend its own
Returned(call, frames, versions) ==
    IF frames = <<>>
    THEN [call EXCEPT !.pc = "returned", !.frames = <<>>, !.retval = Some(versions)]
    ELSE [call EXCEPT !.pc = "unwind", !.frames = frames, !.retval = Some(versions)]

\* the retry_get runs of a page request: every attempt is answered with a
\* status (an attempt that times out is a failed attempt like one answered 500)
PageRuns(max_retries) ==
    {run \in GalaxyRuns(max_retries) :
        \A i \in 1 .. Len(run.seq) : run.seq[i].kind = "status"}

\* one invocation of _get_galaxy_versions, up to its recursive call or its return
GetGalaxyVersions ==
    /\ lister.pc = "page"
    /\ LET context == Get(lister.context)
           depth == Len(lister.frames)
           frame == lister.frames[depth]
           params == RequestParams(lister.params, context.version, frame.add_params)
       IN  \E run \in PageRuns(lib_ctx.max_retries) :
              /\ requests' = requests \o PageRequests(frame.versions_url, params, run.seq)
              /\ IF GalaxyResponseError(run) # ""
                 THEN lister' = [lister EXCEPT !.pc = "raised", !.frames = <<>>,
                                               !.error = GalaxyResponseError(run)]
                 ELSE LET collection_info ==
                              DocumentAt(pages, context.version, frame.versions_url)
                          page == PageResults(context.version, collection_info)
                          versions == VersionsOf(page.results)
                          add_params == IF context.version = "V2"
                                        THEN frame.add_params ELSE FALSE
                          next_link == IF StartsWithSlash(page.next_link)
                                       THEN UrlJoin(context.server, page.next_link.target)
                                       ELSE page.next_link.target
                      IN  IF Truthy(page.next_link)
                          THEN lister' =
                                 [lister EXCEPT
                                    !.frames = Append([lister.frames EXCEPT
                                                          ![depth].versions = versions],
                                                      Frame(next_link, add_params))]
                          ELSE lister' = Returned(lister, SubSeq(lister.frames, 1, depth - 1),
                                                  versions)
    /\ UNCHANGED pages
    /\ UNCHANGED notVersions

\* mutant: the list of the followed pages goes in front of the page's own
Extend_Prepended(versions, more) == more \o versions

\* versions.extend(more)
Extend(versions, more) == versions \o more

\* `versions.extend(await self._get_galaxy_versions(...))` and `return versions`
\* in the invocation that waited
ExtendVersions ==
    /\ lister.pc = "unwind"
    /\ LET depth == Len(lister.frames)
           versions == Extend(lister.frames[depth].versions, Get(lister.retval))
       IN  lister' = Returned(lister, SubSeq(lister.frames, 1, depth - 1), versions)
    /\ UNCHANGED <<pages, requests>>
    /\ UNCHANGED notVersions

NextVersions ==
    \/ GetVersions
    \/ GetGalaxyVersions
    \/ ExtendVersions

(***************************************************************************)
(* galaxy.py: GalaxyClient.get_latest_matching_version.                    *)
(***************************************************************************)
\* semver.Version(v) for those strings
Version(v) ==
    CASE v = "1.0.0"    -> [major |-> 1, minor |-> 0, patch |-> 0, prerelease |-> <<>>]
      [] v = "2.0.0-a1" -> [major |-> 2, minor |-> 0, patch |-> 0, prerelease |-> <<"a1">>]
      [] v = "2.0.0-a2" -> [major |-> 2, minor |-> 0, patch |-> 0, prerelease |-> <<"a2">>]
      [] v = "2.0.0"    -> [major |-> 2, minor |-> 0, patch |-> 0, prerelease |-> <<>>]
      [] v = "2.1.0-b2" -> [major |-> 2, minor |-> 1, patch |-> 0, prerelease |-> <<"b2">>]

Versions == {Version(v) : v \in VersionStrings}

\* the alphanumeric prerelease identifiers in use, in ASCII order
Identifiers == <<"a1", "a2", "b2">>
IdentifierRank(id) == CHOOSE i \in 1 .. Len(Identifiers) : Identifiers[i] = id

\* the order of two prerelease tuples from position i on: identifier by
\* identifier, a tuple that ends first is the smaller
RECURSIVE PrereleaseLess(_, _, _)
PrereleaseLess(a, b, i) ==
    IF i > Len(b) THEN FALSE
    ELSE IF i > Len(a) THEN TRUE
    ELSE IF a[i] = b[i] THEN PrereleaseLess(a, b, i + 1)
    ELSE IdentifierRank(a[i]) < IdentifierRank(b[i])

\* semver.Version.__lt__: major, minor, patch, then a prerelease sorts before
\* the release it leads to
VersionLess(a, b) ==
    IF a.major # b.major THEN a.major < b.major
    ELSE IF a.minor # b.minor THEN a.minor < b.minor
    ELSE IF a.patch # b.patch THEN a.patch < b.patch
    ELSE IF a.prerelease = <<>> THEN FALSE
    ELSE IF b.prerelease = <<>> THEN TRUE
    ELSE PrereleaseLess(a.prerelease, b.prerelease, 1)

\* one step of the sort: v goes in front of the first smaller element
RECURSIVE InsertReverse(_, _)
InsertReverse(sorted, v) ==
    IF sorted = <<>> THEN <<v>>
    ELSE IF VersionLess(Head(sorted), v) THEN <<v>> \o sorted
    ELSE <<Head(sorted)>> \o InsertReverse(Tail(sorted), v)

RECURSIVE SortFrom(_, _, _)
SortFrom(sorted, sem_versions, i) ==
    IF i > Len(sem_versions) THEN sorted
    ELSE SortFrom(InsertReverse(sorted, sem_versions[i]), sem_versions, i + 1)

\* mutant: the list is left in the order the registry gave
SortReverse_Unsorted(sem_versions) == sem_versions

\* sem_versions.sort(reverse=True)
SortReverse(sem_versions) == SortFrom(<<>>, sem_versions, 1)

\* the constraints: semver.SimpleSpec(version_spec), as the versions it holds
Specs == SUBSET Versions

\* `v in spec`
InSpec(v, spec) == v \in spec

\* the for loop from position i on: the first stable match, and the
\* prereleases set aside before it
RECURSIVE MatchLoop(_, _, _, _)
MatchLoop(sem_versions, spec, prereleases, i) ==
    IF i > Len(sem_versions)
    THEN [found |-> None, prereleases |-> prereleases]
    ELSE LET version == sem_versions[i]
         IN  IF ~InSpec(version, spec)
             THEN MatchLoop(sem_versions, spec, prereleases, i + 1)
             ELSE IF version.prerelease # <<>>
             THEN MatchLoop(sem_versions, spec, Append(prereleases, version), i + 1)
             ELSE [found |-> Some(version), prereleases |-> prereleases]

\* mutant: the set-aside prereleases are returned whatever `pre` says
LatestMatchingVersion_PreIgnored(versions, spec, pre) ==
    LET sem_versions == SortReverse([i \in 1 .. Len(versions) |-> Version(versions[i])])
        loop == MatchLoop(sem_versions, spec, <<>>, 1)
    IN  IF loop.found # None
        THEN [pc |-> "returned", result |-> loop.found, error |-> ""]
        ELSE IF loop.prereleases # <<>>
        THEN [pc |-> "returned", result |-> Some(loop.prereleases[1]), error |-> ""]
        ELSE [pc |-> "raised", result |-> None, error |-> "NoSuchVersion"]

\* get_latest_matching_version once get_versions has returned `versions`
LatestMatchingVersion(versions, spec, pre) ==
    LET sem_versions == SortReverse([i \in 1 .. Len(versions) |-> Version(versions[i])])
        loop == MatchLoop(sem_versions, spec, <<>>, 1)
    IN  IF loop.found # None
        THEN [pc |-> "returned", result |-> loop.found, error |-> ""]
        ELSE IF pre /\ loop.prereleases # <<>>
        THEN [pc |-> "returned", result |-> Some(loop.prereleases[1]), error |-> ""]
        ELSE [pc |-> "raised", result |-> None, error |-> "NoSuchVersion"]

\* the lists get_versions can return
VersionLists == UNION {[1 .. n -> VersionStrings] : n \in 0 .. MaxVersions}

\* no get_latest_matching_version call
IdleLatest ==
    latest = [pc |-> "idle", versions |-> <<>>, version_spec |-> {}, pre |-> FALSE,
              result |-> None, error |-> ""]

\* a call whose get_versions has returned
InitLatest ==
    \E versions \in VersionLists, spec \in Specs, pre \in BOOLEAN :
       latest = [pc |-> "listed", versions |-> versions, version_spec |-> spec,
                 pre |-> pre, result |-> None, error |-> ""]

\* the rest of get_latest_matching_version
GetLatestMatchingVersion ==
    /\ latest.pc = "listed"
    /\ LET outcome == LatestMatchingVersion(latest.versions, latest.version_spec, latest.pre)
       IN  latest' = [latest EXCEPT !.pc = outcome.pc, !.result = outcome.result,
                                    !.error = outcome.error]
    /\ UNCHANGED notLatest

NextLatest == GetLatestMatchingVersion

(***************************************************************************)
(* utils/hashing.py: verify_hash and verify_a_hash called on their own.    *)
(***************************************************************************)
\* the contents of the file that is verified: every byte string up to MaxBytes
FileContents == UNION {[1 .. n -> {1, 2}] : n \in 0 .. MaxBytes}

\* hashlib.<algorithm>(content).hexdigest(): the digest of a whole content
WholeDigest(algorithm, content) == Hexdigest(HasherUpdate(NewHasher(algorithm), content))

\* a content that differs from the given one in one byte; the empty content
\* has none to alter and gets one
Altered(content) ==
    IF content = <<>> THEN <<1>>
    ELSE [content EXCEPT ![1] = IF @ = 1 THEN 2 ELSE 1]

\* the digest maps handed to verify_a_hash: any of three keys, each with the
\* digest of the file or the digest of an altered file
DigestChoices ==
    UNION { [keys -> {"right", "wrong"}] : keys \in SUBSET {"sha256", "blake2b_256", "md5"} }

DigestsFor(content, choice) ==
    [k \in DOMAIN choice |->
        DigestOf(k, IF choice[k] = "right" THEN content ELSE Altered(content))]

\* no call
IdleHashing ==
    hashing = [pc |-> "idle", fn |-> "", content |-> <<>>, hash_digest |-> None,
               algorithm |-> "", hash_digests |-> <<>>, chunksize |-> 1, result |-> FALSE]

\* a call of verify_hash
InitVerifyHash ==
    \E content \in FileContents, expected \in FileContents,
       algorithm \in {"sha256", "blake2b"}, digest_algorithm \in {"sha256", "blake2b"},
       chunksize \in ChunkSizes :
       hashing = [pc |-> "called", fn |-> "verify_hash", content |-> content,
                  hash_digest |-> WholeDigest(digest_algorithm, expected),
                  algorithm |-> algorithm, hash_digests |-> <<>>,
                  chunksize |-> chunksize, result |-> FALSE]

\* a call of verify_a_hash
InitVerifyAHash ==
    \E content \in FileContents, chunksize \in ChunkSizes :
       \E choice \in DigestChoices :
          hashing = [pc |-> "called", fn |-> "verify_a_hash", content |-> content,
                     hash_digest |-> None, algorithm |-> "",
                     hash_digests |-> DigestsFor(content, choice),
                     chunksize |-> chunksize, result |-> FALSE]

InitHashing == InitVerifyHash \/ InitVerifyAHash

\* verify_hash
VerifyHashCall ==
    /\ hashing.pc = "called"
    /\ hashing.fn = "verify_hash"
    /\ hashing' = [hashing EXCEPT
                      !.pc = "returned",
                      !.result = VerifyHash(hashing.content, hashing.hash_digest,
                                            hashing.algorithm, hashing.chunksize)]
    /\ UNCHANGED notHashing

\* verify_a_hash
VerifyAHashCall ==
    /\ hashing.pc = "called"
    /\ hashing.fn = "verify_a_hash"
    /\ hashing' = [hashing EXCEPT
                      !.pc = "returned",
                      !.result = VerifyAHash(hashing.content, hashing.hash_digests,
                                             hashing.chunksize)]
    /\ UNCHANGED notHashing

NextHashing ==
    \/ VerifyHashCall
    \/ VerifyAHashCall

(***************************************************************************)
(* ansible_core.py: get_ansible_core.                                      *)
(***************************************************************************)
\* PypiVer(s): the version strings in use, and one string that is no version.
\* `public` is the normalised text without the local segment: "2.16.0dev0"
\* and "2.16.0.dev0+local" are two other spellings of 2.16.0.dev0.
PypiVersions ==
    [ s \in {"2.14.9", "2.15.0", "2.15.1", "2.15.2", "2.16.0", "2.16.0.dev0",
             "2.16.0dev0", "2.16.0.dev0+local"} |->
        CASE s = "2.14.9"      -> [public |-> s, major |-> 2, minor |-> 14, micro |-> 9, dev |-> FALSE]
          [] s = "2.15.0"      -> [public |-> s, major |-> 2, minor |-> 15, micro |-> 0, dev |-> FALSE]
          [] s = "2.15.1"      -> [public |-> s, major |-> 2, minor |-> 15, micro |-> 1, dev |-> FALSE]
          [] s = "2.15.2"      -> [public |-> s, major |-> 2, minor |-> 15, micro |-> 2, dev |-> FALSE]
          [] s = "2.16.0"      -> [public |-> s, major |-> 2, minor |-> 16, micro |-> 0, dev |-> FALSE]
          [] s = "2.16.0.dev0" -> [public |-> s, major |-> 2, minor |-> 16, micro |-> 0, dev |-> TRUE]
          [] OTHER -> [public |-> "2.16.0.dev0", major |-> 2, minor |-> 16, micro |-> 0, dev |-> TRUE] ]

\* PypiVer(s): None stands for the InvalidVersion that is raised
PypiVer(s) == IF s \in DOMAIN PypiVersions THEN Some(PypiVersions[s]) ELSE None

\* the values of ansible_core_version
Selectors == {"@devel", "@latest", "2.15.1", "2.16.0", "not-a-version"}

\* the values of ansible_core_source: None, a directory whose release.py
\* cannot be read, or a tree whose release.py declares a version
SourceTrees ==
    {None, Some([path |-> "src", version |-> None])}
       \cup {Some([path |-> "src", version |-> Some(v)]) : v \in DOMAIN PypiVersions}

\* what get_latest_version can answer with
LatestVersions == {"2.15.1", "2.16.0"}

\* _get_source_version: None stands for any exception it raises
GetSourceVersion(ansible_core_source) ==
    IF Get(ansible_core_source).version = None
    THEN None
    ELSE PypiVer(Get(Get(ansible_core_source).version))

\* re.compile(".*[.]dev[0-9]+$").match(text), for the texts in use
MatchesDevPattern(text) == text \in {"2.16.0.dev0"}

\* mutant: every version that can be read counts as a devel version
VersionIsDevel_Always(version) == TRUE

\* _version_is_devel
VersionIsDevel(version) == MatchesDevPattern(version.public)

\* source_is_devel
SourceIsDevel(ansible_core_source) ==
    IF ansible_core_source = None THEN FALSE
    ELSE IF GetSourceVersion(ansible_core_source) = None THEN FALSE
    ELSE VersionIsDevel(Get(GetSourceVersion(ansible_core_source)))

\* mutant: the micro versions are not compared
SourceIsCorrectVersion_AnyMicro(ansible_core_source, ansible_core_version) ==
    IF ansible_core_source = None THEN FALSE
    ELSE IF GetSourceVersion(ansible_core_source) = None THEN FALSE
    ELSE LET source_version == Get(GetSourceVersion(ansible_core_source))
         IN  /\ source_version.major = ansible_core_version.major
             /\ source_version.minor = ansible_core_version.minor

\* source_is_correct_version
SourceIsCorrectVersion(ansible_core_source, ansible_core_version) ==
    IF ansible_core_source = None THEN FALSE
    ELSE IF GetSourceVersion(ansible_core_source) = None THEN FALSE
    ELSE LET source_version == Get(GetSourceVersion(ansible_core_source))
         IN  /\ source_version.major = ansible_core_version.major
             /\ source_version.minor = ansible_core_version.minor
             /\ source_version.micro >= ansible_core_version.micro

\* no get_ansible_core call
IdleCore ==
    /\ core = [pc |-> "idle", ansible_core_version |-> "", ansible_core_source |-> None,
               pypi_version |-> None, source_location |-> "", install_file |-> None,
               error |-> ""]
    /\ visited = <<>>

\* get_ansible_core(aio_session, ansible_core_version, tmpdir, ansible_core_source)
InitCore ==
    /\ \E ansible_core_version \in Selectors, ansible_core_source \in SourceTrees :
          core = [pc |-> "start", ansible_core_version |-> ansible_core_version,
                  ansible_core_source |-> ansible_core_source,
                  pypi_version |-> None, source_location |-> "", install_file |-> None,
                  error |-> ""]
    /\ visited = <<"START">>

\* the call ends with an exception
CoreRaise(call, error) == [call EXCEPT !.pc = "raised", !.error = error]

\* `if source_is_correct_version(...)`: build from the source tree, or retrieve
VersionRoute(call, pypi_version) ==
    IF SourceIsCorrectVersion(call.ansible_core_source, pypi_version)
    THEN [call EXCEPT !.pc = "build", !.pypi_version = Some(pypi_version),
                      !.source_location = Get(call.ansible_core_source).path]
    ELSE [call EXCEPT !.pc = "retrieve", !.pypi_version = Some(pypi_version)]

\* the state of the acquirer that a call at this point of the code is in
RouteState(call) ==
    CASE call.pc = "build" -> <<"USE_LOCAL_SOURCE">>
      [] call.pc = "clone" -> <<"BUILD_FROM_CLONE">>
      [] call.pc = "retrieve" -> <<"DOWNLOAD_FROM_INDEX">>
      [] call.pc = "done" -> <<"DONE">>
      [] OTHER -> <<>>

\* get_ansible_core up to its first await
GetAnsibleCore ==
    /\ core.pc = "start"
    /\ LET selector == IF core.ansible_core_version = "@devel" THEN "DEVEL"
                       ELSE IF core.ansible_core_version = "@latest" THEN "LATEST"
                       ELSE "EXACT"
           next == IF core.ansible_core_version = "@devel"
                   THEN IF SourceIsDevel(core.ansible_core_source)
                        THEN [core EXCEPT !.pc = "build",
                                          !.source_location = Get(core.ansible_core_source).path]
                        ELSE [core EXCEPT !.pc = "clone"]
                   ELSE IF core.ansible_core_version = "@latest"
                   THEN [core EXCEPT !.pc = "latest"]
                   ELSE IF PypiVer(core.ansible_core_version) = None
                   THEN CoreRaise(core, "InvalidVersion")
                   ELSE VersionRoute(core, Get(PypiVer(core.ansible_core_version)))
       IN  /\ core' = next
           /\ visited' = visited \o <<selector>> \o RouteState(next)
    /\ UNCHANGED notCore

\* `await pypi_client.get_latest_version()` returns or raises
GetLatestVersion ==
    /\ core.pc = "latest"
    /\ \/ \E v \in LatestVersions :
             /\ core' = VersionRoute(core, Get(PypiVer(v)))
             /\ visited' = visited \o RouteState(core')
       \/ /\ core' = CoreRaise(core, "RuntimeError")
          /\ UNCHANGED visited
    /\ UNCHANGED notCore

\* `await checkout_from_git(tmpdir)` returns the clone or raises
CheckoutFromGit ==
    /\ core.pc = "clone"
    /\ \/ core' = [core EXCEPT !.pc = "build", !.source_location = "tmpdir/ansible-core"]
       \/ core' = CoreRaise(core, "CalledProcessError")
    /\ UNCHANGED visited
    /\ UNCHANGED notCore

\* mutant: a build that fails is followed by a download from the index
BuildFailed_ThenIndex(call) == [call EXCEPT !.pc = "retrieve"]

\* create_sdist raises CannotBuild
BuildFailed(call) == CoreRaise(call, "CannotBuild")

\* `install_file = await create_sdist(source_location, tmpdir)` and the return
CreateSdist ==
    /\ core.pc = "build"
    /\ \/ core' = [core EXCEPT !.pc = "done",
                               !.install_file = Some([sdist |-> core.source_location])]
       \/ core' = BuildFailed(core)
    /\ visited' = visited \o RouteState(core')
    /\ UNCHANGED notCore

\* `install_file = await pypi_client.retrieve(version.public, tmpdir)` and the
\* return
CoreRetrieve ==
    /\ core.pc = "retrieve"
    /\ \/ /\ core' = [core EXCEPT !.pc = "done",
                                  !.install_file =
                                     Some([tarball |-> Get(core.pypi_version).public])]
          /\ visited' = Append(visited, "DONE")
       \/ /\ \E error \in {"UnknownVersion", "RuntimeError", "KeyError"} :
                core' = CoreRaise(core, error)
          /\ UNCHANGED visited
    /\ UNCHANGED notCore

NextCore ==
    \/ GetAnsibleCore
    \/ GetLatestVersion
    \/ CheckoutFromGit
    \/ CreateSdist
    \/ CoreRetrieve

(***************************************************************************)
(* galaxy.py: CollectionDownloader.download_latest_matching.               *)
(***************************************************************************)
\* mutant: the resolution is asked to allow prereleases
DefaultPre_Allowed == TRUE

\* `pre: bool = False`: download_latest_matching passes no pre
DefaultPre == FALSE

\* str(version) of a semver.Version, as put into the URL of get_release_info
VersionString(version) == CHOOSE v \in VersionStrings : Version(v) = version

\* download_latest_matching whose get_versions has returned: one attempt per
\* GET, no collection cache
InitLatestDownload ==
    /\ \E versions \in VersionLists, spec \in Specs :
          latest = [pc |-> "listed", versions |-> versions, version_spec |-> spec,
                    pre |-> DefaultPre, result |-> None, error |-> ""]
    /\ lib_ctx = IdleLibCtx
    /\ registry = [release_info |-> CollectionRelease(Artifact), releases |-> None]
    /\ cachedir = NoFiles
    /\ destdir = NoFiles
    /\ acq = [NewCall("download", FALSE) EXCEPT !.pc = "resolve", !.version = ""]
    /\ trail = <<>>

\* `version = await self.get_latest_matching_version(...)` is over: its
\* exception ends the call, its result is handed to self.download
DownloadLatestMatching ==
    /\ acq.kind = "download"
    /\ acq.pc = "resolve"
    /\ latest.pc \in {"returned", "raised"}
    /\ acq' = IF latest.pc = "raised"
              THEN Raise(acq, latest.error)
              ELSE [acq EXCEPT !.pc = "start",
                               !.version = VersionString(Get(latest.result))]
    /\ UNCHANGED <<lib_ctx, registry, cachedir, destdir, trail>>
    /\ UNCHANGED notAcq

NextLatestDownload ==
    \/ GetLatestMatchingVersion
    \/ DownloadLatestMatching
    \/ GalaxyInfo
    \/ DownloadCheckCache
    \/ DownloadGet
    \/ DownloadFinish

(***************************************************************************)
(* ansible_core.py: AnsibleCorePyPiClient.retrieve calls for one version   *)
(* that run as tasks of one event loop.  The tasks share the core cache    *)
(* directory; each has a download directory of its own.  A task gives way  *)
(* to the other at every await: at each read and write of a chunk.         *)
(***************************************************************************)
Retrievers == {"A", "B"}

\* f.read(n) on a file object whose offset is pos
ReadAt(file, pos, n) ==
    IF pos >= Len(file) THEN <<>>
    ELSE SubSeq(file, pos + 1, IF pos + n < Len(file) THEN pos + n ELSE Len(file))

\* f.write(chunk) on a file object whose offset is pos: the bytes between the
\* end of the file and pos read as 0
WriteAt(file, pos, chunk) ==
    LET end == pos + Len(chunk)
        len == IF Len(file) > end THEN Len(file) ELSE end
    IN  [i \in 1 .. len |->
            IF i > pos /\ i <= end THEN chunk[i - pos]
            ELSE IF i <= Len(file) THEN file[i] ELSE 0]

\* a retrieve call before it starts
NewRetriever ==
    [ pc         |-> "start",
      tar        |-> None,                \* the file at tar_path: None or its bytes
      pos        |-> 0,                   \* the offset of the file objects of the loop
      hasher     |-> NewHasher("sha256"), \* the hasher of verify_a_hash
      from_cache |-> FALSE,               \* history: tar_path was copied from the cache
      result     |-> None ]               \* the content of the file returned

\* no retrieve task
IdleShared ==
    /\ corecache = None
    /\ retrievers = <<>>

\* two retrieve calls for CoreVersion; the core cache is set, trusted or
\* not, and is empty or holds the artifact
InitShared ==
    /\ \E c \in ChunkSizes, trust \in BOOLEAN :
          lib_ctx = [IdleLibCtx EXCEPT !.chunksize = c, !.ansible_core_cache = TRUE,
                                       !.trust_ansible_core_cache = trust]
    /\ corecache \in {None, Some(Artifact)}
    /\ retrievers = [t \in Retrievers |-> NewRetriever]

\* copy_file(cached_path, tar_path) opens both files: tar_path is truncated
OpenCopyIn(call) ==
    [call EXCEPT !.pc = "copy_in", !.tar = Some(<<>>), !.pos = 0, !.from_cache = TRUE]

\* the trusted cache is looked at first: os.path.isfile(cached_path)
SharedStart ==
    \E t \in Retrievers :
       /\ retrievers[t].pc = "start"
       /\ retrievers' = [retrievers EXCEPT ![t] =
                            IF TrustsCoreCache(lib_ctx) /\ corecache # None
                            THEN OpenCopyIn(@)
                            ELSE [@ EXCEPT !.pc = "release_info"]]
       /\ UNCHANGED corecache
       /\ UNCHANGED notShared

\* get_release_info has returned the file record with its sha256 digest;
\* `if lib_ctx.ansible_core_cache and "sha256" in digests` and the isfile test
SharedReleaseInfo ==
    \E t \in Retrievers :
       /\ retrievers[t].pc = "release_info"
       /\ retrievers' = [retrievers EXCEPT ![t] =
                            IF lib_ctx.ansible_core_cache /\ corecache # None
                            THEN [@ EXCEPT !.pc = "verify", !.pos = 0,
                                           !.hasher = NewHasher("sha256")]
                            ELSE [@ EXCEPT !.pc = "get"]]
       /\ UNCHANGED corecache
       /\ UNCHANGED notShared

\* verify_a_hash(cached_path, digests): one read of the loop, or the
\* comparison of the digests once the read returns nothing
SharedVerify ==
    \E t \in Retrievers :
       /\ retrievers[t].pc = "verify"
       /\ LET call == retrievers[t]
              chunk == ReadAt(Get(corecache), call.pos, lib_ctx.chunksize)
          IN  retrievers' = [retrievers EXCEPT ![t] =
                 IF chunk # <<>>
                 THEN [call EXCEPT !.hasher = HasherUpdate(@, chunk),
                                   !.pos = @ + Len(chunk)]
                 ELSE IF Hexdigest(call.hasher) = DigestOf("sha256", Artifact)
                 THEN OpenCopyIn(call)
                 ELSE [call EXCEPT !.pc = "get"]]
       /\ UNCHANGED corecache
       /\ UNCHANGED notShared

\* copy_file(cached_path, tar_path): one read and write of the loop, or the
\* return of tar_path once the read returns nothing
SharedCopyIn ==
    \E t \in Retrievers :
       /\ retrievers[t].pc = "copy_in"
       /\ LET call == retrievers[t]
              chunk == ReadAt(Get(corecache), call.pos, lib_ctx.chunksize)
          IN  retrievers' = [retrievers EXCEPT ![t] =
                 IF chunk # <<>>
                 THEN [call EXCEPT !.tar = Some(Get(@) \o chunk), !.pos = @ + Len(chunk)]
                 ELSE [call EXCEPT !.pc = "done", !.result = call.tar]]
       /\ UNCHANGED corecache
       /\ UNCHANGED notShared

\* the download: the index serves the artifact, which is written to tar_path
SharedDownload ==
    \E t \in Retrievers :
       /\ retrievers[t].pc = "get"
       /\ retrievers' = [retrievers EXCEPT ![t] =
                            IF lib_ctx.ansible_core_cache
                            THEN [@ EXCEPT !.pc = "open_cache", !.tar = Some(Artifact)]
                            ELSE [@ EXCEPT !.pc = "done", !.tar = Some(Artifact),
                                           !.result = Some(Artifact)]]
       /\ UNCHANGED corecache
       /\ UNCHANGED notShared

\* copy_file(tar_path, cached_path) opens both files: the cache file is
\* created or truncated
SharedOpenCache ==
    \E t \in Retrievers :
       /\ retrievers[t].pc = "open_cache"
       /\ corecache' = Some(<<>>)
       /\ retrievers' = [retrievers EXCEPT ![t] = [@ EXCEPT !.pc = "copy_out", !.pos = 0]]
       /\ UNCHANGED notShared

\* copy_file(tar_path, cached_path): one read and write of the loop, or the
\* return of tar_path once the read returns nothing
SharedCopyOut ==
    \E t \in Retrievers :
       /\ retrievers[t].pc = "copy_out"
       /\ LET call == retrievers[t]
              chunk == ReadAt(Get(call.tar), call.pos, lib_ctx.chunksize)
          IN  IF chunk # <<>>
              THEN /\ corecache' = Some(WriteAt(Get(corecache), call.pos, chunk))
                   /\ retrievers' = [retrievers EXCEPT ![t] =
                                        [call EXCEPT !.pos = @ + Len(chunk)]]
              ELSE /\ retrievers' = [retrievers EXCEPT ![t] =
                                        [call EXCEPT !.pc = "done", !.result = call.tar]]
                   /\ UNCHANGED corecache
       /\ UNCHANGED notShared

NextShared ==
    \/ SharedStart
    \/ SharedReleaseInfo
    \/ SharedVerify
    \/ SharedCopyIn
    \/ SharedDownload
    \/ SharedOpenCache
    \/ SharedCopyOut

(***************************************************************************)
(* The specifications: one per subsystem.                                  *)
(***************************************************************************)
InitSpecRetry == InitRetry /\ IdleCtx /\ IdleAcq /\ IdleVersions /\ IdleLatest /\ IdleHashing /\ IdleCore /\ IdleShared

SpecRetry == InitSpecRetry /\ [][NextRetry]_vars

InitSpecCtx == InitCtx /\ IdleRetry /\ IdleAcq /\ IdleVersions /\ IdleLatest /\ IdleHashing /\ IdleCore /\ IdleShared

SpecCtx == InitSpecCtx /\ [][NextCtx]_vars

InitSpecAcq == InitAcq /\ IdleRetry /\ IdleCtx /\ IdleVersions /\ IdleLatest /\ IdleHashing /\ IdleCore /\ IdleShared

SpecAcq == InitSpecAcq /\ [][NextAcq]_vars

InitSpecVersions == InitVersions /\ IdleRetry /\ IdleCtx /\ IdleLatest /\ IdleHashing /\ IdleCore /\ IdleShared

SpecVersions == InitSpecVersions /\ [][NextVersions]_vars
\* the coroutine is run to its end: no await of get_versions waits for ever
SpecVersionsLive == SpecVersions /\ WF_vars(NextVersions)

InitSpecLatest == InitLatest /\ IdleRetry /\ IdleCtx /\ IdleAcq /\ IdleVersions /\ IdleHashing /\ IdleCore /\ IdleShared

SpecLatest == InitSpecLatest /\ [][NextLatest]_vars

InitSpecLatestDownload ==
    InitLatestDownload /\ IdleRetry /\ IdleCtx /\ IdleVersions /\ IdleHashing /\ IdleCore /\ IdleShared

SpecLatestDownload == InitSpecLatestDownload /\ [][NextLatestDownload]_vars

InitSpecHashing ==
    InitHashing /\ IdleRetry /\ IdleCtx /\ IdleAcq /\ IdleVersions /\ IdleLatest /\ IdleCore /\ IdleShared

SpecHashing == InitSpecHashing /\ [][NextHashing]_vars

InitSpecCore ==
    InitCore /\ IdleRetry /\ IdleCtx /\ IdleAcq /\ IdleVersions /\ IdleLatest /\ IdleHashing
       /\ IdleShared

InitSpecShared ==
    InitShared /\ IdleRetry /\ IdleCtx /\ IdleAcqCall /\ IdleVersions /\ IdleLatest
       /\ IdleHashing /\ IdleCore

SpecShared == InitSpecShared /\ [][NextShared]_vars

SpecCore == InitSpecCore /\ [][NextCore]_vars

\* the event loop resumes the call whenever the collaborator it awaits has
\* returned or raised
SpecCoreLive == SpecCore /\ WF_vars(NextCore)

(***************************************************************************)
(* Claims about the GalaxyContext cache, checked under SpecCtx.            *)
(***************************************************************************)
\* the call of task t has returned a context or raised
CtxDone(t) == callers[t].pc \in {"returned", "raised"}

\* C1: for any number of tasks of one event loop that call
\* _get_cached_galaxy_context, directly or through _ensure_context, for the
\* same server URL, GalaxyContext.create is started at most once for that URL
\* and all callers get the same GalaxyContext object, or the same exception.
C1_SingleCreation ==
    \A s \in Servers :
       /\ creates[s] <= 1
       /\ Cardinality({f \in 1 .. Len(futures) : futures[f].server = s}) <= 1
       /\ \A t1, t2 \in Tasks :
             ( /\ CtxDone(t1) /\ callers[t1].server = s
               /\ CtxDone(t2) /\ callers[t2].server = s )
             => /\ callers[t1].pc = callers[t2].pc
                /\ callers[t1].result = callers[t2].result

C1_Witness ==
    \E s \in Servers :
       /\ creates[s] = 1
       /\ \A t \in Tasks : callers[t].pc = "returned" /\ callers[t].server = s
       /\ \E t1, t2 \in Tasks :
             /\ t1 # t2
             /\ callers[t1].fut # 0 /\ callers[t1].fut = callers[t2].fut
             /\ callers[t1].client = None /\ callers[t2].client # None

\* the futures of a server whose GalaxyContext.create has raised
FailedFutures(s) ==
    {f \in 1 .. Len(futures) : futures[f].server = s /\ futures[f].state = "exception"}

\* after a failed creation for a server its future stays the cache entry;
\* create was started once, no context exists for the server, and every call
\* for the server that has ended has raised the exception of that future
FailureKept ==
    \A s \in Servers : \A f \in FailedFutures(s) :
       /\ cache[s] = Some(FutureEntry(f))
       /\ creates[s] = 1
       /\ \A g \in 1 .. Len(futures) : futures[g].server = s => g = f
       /\ \A t \in Tasks :
             (CtxDone(t) /\ callers[t].server = s) =>
                /\ callers[t].pc = "raised"
                /\ callers[t].result = futures[f].value
       /\ \A c \in Clients : clients[c].galaxy_server = s => clients[c].context = None

\* a call for a server whose creation has failed raises at once, makes no
\* future and changes neither the cache nor the number of creations
LaterCallRaises ==
    \A t \in Tasks :
       ( /\ callers[t].pc = "idle"
         /\ callers'[t].pc # "idle"
         /\ FailedFutures(callers'[t].server) # {} )
       => /\ callers'[t].pc = "raised"
          /\ \A f \in FailedFutures(callers'[t].server) :
                callers'[t].result = futures[f].value
          /\ UNCHANGED <<cache, creates>>
          /\ Len(futures') = Len(futures)

\* C28: once GalaxyContext.create has raised for a server URL, every later
\* _get_cached_galaxy_context call for that URL raises the exception of the
\* cached future, no further create (and so no further request to the
\* server) is started for the URL, and the cache entry of the URL stays that
\* future: no GalaxyContext is stored for it.
C28_FailureMemoized ==
    /\ []FailureKept
    /\ [][LaterCallRaises]_vars
    /\ [][\A s \in Servers :
             FailedFutures(s) # {} =>
                /\ cache'[s] = cache[s]
                /\ creates'[s] = creates[s]
                /\ FailedFutures(s)' = FailedFutures(s)]_vars

\* C28 witness: a task that called after the creation for a server had
\* failed has raised what the first caller raised
C28_Witness ==
    \E s \in Servers : \E f \in FailedFutures(s) : \E t1, t2 \in Tasks :
       /\ t1 # t2
       /\ futures[f].found_done
       /\ callers[t1].server = s /\ callers[t2].server = s
       /\ callers[t1].pc = "raised" /\ callers[t2].pc = "raised"
       /\ callers[t1].result = callers[t2].result
       /\ creates[s] = 1

\* the futures whose GalaxyContext.create has read the api/ root
CreatedFrom == {f \in 1 .. Len(futures) : futures[f].task = "done" /\ futures[f].info # None}

\* the keys of the available_versions map of a galaxy_info document
Advertised(galaxy_info) ==
    IF galaxy_info.available_versions = None
    THEN {}
    ELSE DOMAIN Get(galaxy_info.available_versions)

\* C12: GalaxyContext.create makes a V3 context whenever 'v3' is advertised,
\* a V2 context when 'v2' is advertised and 'v3' is not, each with the base
\* URL advertised for that dialect, and raises the error naming neither API
\* when the map is missing, empty or advertises neither.
C12_DialectSelection ==
    \A f \in CreatedFrom :
       LET fut == futures[f]
           galaxy_info == Get(fut.info)
           keys == Advertised(galaxy_info)
           chosen == IF "v3" \in keys THEN "v3" ELSE "v2"
       IN  IF keys \cap {"v2", "v3"} # {}
           THEN /\ fut.state = "result"
                /\ fut.ctx.server = fut.server
                /\ fut.ctx.version = (IF chosen = "v3" THEN "V3" ELSE "V2")
                /\ fut.ctx.base_url =
                      fut.server \o "api/" \o Get(galaxy_info.available_versions)[chosen]
           ELSE /\ fut.state = "exception"
                /\ ~fut.ctx.ok
                /\ fut.ctx.base_url = "neither Galaxy v2 API nor Galaxy v3 API"

\* C12 witness: a server that advertises both dialects got a V3 context
C12_Witness ==
    \E f \in CreatedFrom :
       /\ Advertised(Get(futures[f].info)) = {"v2", "v3"}
       /\ futures[f].state = "result"
       /\ futures[f].ctx.version = "V3"
       /\ futures[f].ctx.base_url = "https://hub.example/api/v3/plugin/"

(***************************************************************************)
(* Claims about the acquisition calls, checked under SpecAcq.              *)
(***************************************************************************)
\* the trust flag of the cache that the running call uses
TrustFlag ==
    IF acq.kind = "retrieve"
    THEN lib_ctx.ansible_core_cache /\ lib_ctx.trust_ansible_core_cache
    ELSE lib_ctx.trust_collection_cache

\* entry e of the history is a copy of a cache file into the download directory
IsCacheCopy(e) == e.ev = "copy" /\ e.target = "cache->dest"

\* the registry reported the sha256 digest of what the cache file name holds
CacheFileAsReported(name) ==
    /\ cachedir[name] # None
    /\ "sha256" \in DOMAIN acq.release.digests
    /\ acq.release.digests["sha256"] = <<"sha256", Get(cachedir[name])>>

\* C2: in every execution of CollectionDownloader.download and of
\* AnsibleCorePyPiClient.retrieve a file of the cache directory is copied to
\* the destination and returned only if the trust flag of that cache is set
\* or a digest check of that file against the digest the registry reported
\* has succeeded earlier in the call.
C2_CacheTrustedOrVerified ==
    /\ \A i \in 1 .. Len(trail) :
          IsCacheCopy(trail[i]) =>
             \/ TrustFlag
             \/ /\ \E j \in 1 .. (i - 1) :
                       trail[j] = VerifyEvent("cache", trail[i].name, TRUE)
                /\ CacheFileAsReported(trail[i].name)
    /\ \A n \in FileNames :
          ( /\ acq.kind \in {"download", "retrieve"}
            /\ acq.result = Some(n)
            /\ \A i \in 1 .. Len(trail) : ~(trail[i].ev = "GET" /\ trail[i].target = "download") )
          => /\ \E i \in 1 .. Len(trail) : IsCacheCopy(trail[i]) /\ trail[i].name = n
             /\ destdir[n] = cachedir[n]
             /\ TrustFlag \/ CacheFileAsReported(n)

C2_Witness ==
    /\ acq.kind = "retrieve"
    /\ ~TrustFlag
    /\ acq.pc = "done"
    /\ \E i \in 1 .. Len(trail) : IsCacheCopy(trail[i]) /\ acq.result = Some(trail[i].name)
    /\ \E i \in 1 .. Len(trail) : trail[i].ev = "GET" /\ trail[i].detail = "500"

\* C9: a registry answer that the artifact is absent (HTTP 404) is definitive
\* for every acquisition request, to the collection registry and to the
\* package index alike: the call raises after that single attempt and no GET
\* follows the 404.
C9_NotFoundDefinitive ==
    \A i \in 1 .. Len(trail) :
       (trail[i].ev = "GET" /\ trail[i].detail = "404") =>
          /\ \A j \in (i + 1) .. Len(trail) : trail[j].ev # "GET"
          /\ acq.pc = "raised"

\* the events of the history of one kind
TrailEvents(ev) == {i \in 1 .. Len(trail) : trail[i].ev = ev}

\* the running call has not written into its cache
CacheUntouched == \A i \in TrailEvents("copy") : trail[i].target # "dest->cache"

\* C15: a download with a collection cache in trusting mode that finds the
\* file of the release in the cache sends no GET and checks no digest: it
\* only copies the cached file to the download directory and returns.
C15_TrustedCollectionCache ==
    ( /\ acq.kind = "download"
      /\ acq.collection_cache
      /\ lib_ctx.trust_collection_cache
      /\ CacheUntouched
      /\ cachedir[CollectionFile] # None )
    => /\ TrailEvents("GET") = {}
       /\ TrailEvents("verify") = {}
       /\ acq.pc \in {"start", "done"}
       /\ acq.pc = "done" => destdir[CollectionFile] = cachedir[CollectionFile]

\* the two accepted spellings of the ansible-core tarball
Spellings == {TarFilenames(CoreVersion)[i] : i \in 1 .. 2}

\* the spellings that were files of the core cache when the call began
CachedSpellings == {n \in Spellings : CacheUntouched /\ cachedir[n] # None}

\* C16: retrieve with a trusted core cache that holds the tarball under
\* either spelling sends no GET and checks no digest: it copies the cached
\* file to the download directory under the spelling it found and returns
\* that path; when the cache holds neither spelling, the first thing the call
\* does is ask the package index for the release information.
C16_TrustedCoreCache ==
    (acq.kind = "retrieve" /\ TrustsCoreCache(lib_ctx)) =>
       IF CachedSpellings # {}
       THEN /\ TrailEvents("GET") = {}
            /\ TrailEvents("verify") = {}
            /\ acq.pc \in {"start", "done"}
            /\ acq.pc = "done" =>
                  /\ Get(acq.result) \in CachedSpellings
                  /\ destdir[Get(acq.result)] = cachedir[Get(acq.result)]
                  /\ \A n \in FileNames \ {Get(acq.result)} : destdir[n] = None
                  /\ trail = <<CopyEvent("cache->dest", Get(acq.result))>>
       ELSE acq.pc \notin {"start", "release_info"} =>
                  /\ trail # <<>>
                  /\ trail[1].ev = "GET"
                  /\ trail[1].target = "release_info"

\* C16 witness: only the spelling with the hyphen was in the trusted cache,
\* and the call returned it
C16_Witness ==
    /\ acq.kind = "retrieve"
    /\ TrustsCoreCache(lib_ctx)
    /\ CachedSpellings = {"ansible-core-2.15.0.tar.gz"}
    /\ acq.pc = "done"
    /\ acq.result = Some("ansible-core-2.15.0.tar.gz")
    /\ destdir["ansible-core-2.15.0.tar.gz"] = Some(Artifact)
    /\ lib_ctx.chunksize < Len(Artifact)

\* the call runs with a cache that is verified before it is used
VerifyingMode ==
    \/ acq.kind = "download" /\ acq.collection_cache /\ ~lib_ctx.trust_collection_cache
    \/ acq.kind = "retrieve" /\ lib_ctx.ansible_core_cache
                             /\ ~lib_ctx.trust_ansible_core_cache

\* the call knows the release, and the cache holds, from before the call, a
\* file of the release's name whose content does not have the reported digest
StaleCacheFile ==
    /\ acq.pc \in {"cache", "get", "verify"}
    /\ CacheUntouched
    /\ cachedir[acq.release.filename] # None
    /\ \E k \in DOMAIN acq.release.digests :
          acq.release.digests[k] # DigestOf(k, Get(cachedir[acq.release.filename]))

\* C17: no step of a download or retrieve in verifying mode that has a stale
\* file in its cache copies that file to the download directory, and a step
\* that ends the call with a path has got the file from the registry URL
\* with status 200 and left the bytes of that response in the returned file.
C17_StaleCacheRedownloaded ==
    [][ (VerifyingMode /\ StaleCacheFile) =>
           /\ \A i \in TrailEvents("copy")' : trail'[i].target # "cache->dest"
           /\ acq'.pc = "done" =>
                 /\ \E i \in TrailEvents("GET")' :
                       trail'[i].target = "download" /\ trail'[i].detail = "200"
                 /\ acq'.served # None
                 /\ destdir'[Get(acq'.result)] = acq'.served ]_vars

\* C17 witness: retrieve found a stale tarball in its cache, saw the digest
\* mismatch, downloaded the file and returned the downloaded bytes
C17_Witness ==
    /\ acq.kind = "retrieve"
    /\ lib_ctx.ansible_core_cache /\ ~lib_ctx.trust_ansible_core_cache
    /\ acq.pc = "done"
    /\ \E i \in TrailEvents("verify") :
          /\ trail[i].target = "cache" /\ trail[i].detail = "mismatch"
          /\ \E j \in TrailEvents("GET") :
                j > i /\ trail[j].target = "download" /\ trail[j].detail = "200"
    /\ acq.served = Some(Artifact)
    /\ destdir[Get(acq.result)] = Some(Artifact)

\* download has written a response body that does not have the sha256 the
\* registry reported
DownloadMismatch ==
    /\ acq.kind = "download"
    /\ acq.served # None
    /\ acq.release.digests["sha256"] # WholeDigest("sha256", Get(acq.served))

\* C18: when the body download has written does not have the reported sha256,
\* the next step of the call raises DownloadFailure, sends no further GET,
\* returns no path and leaves the collection cache as it was; after that the
\* call does nothing more.
C18_DownloadFailureFatal ==
    /\ [][ (DownloadMismatch /\ acq.pc = "verify") =>
              /\ acq'.pc = "raised"
              /\ acq'.error = "DownloadFailure"
              /\ acq'.result = None
              /\ cachedir' = cachedir
              /\ TrailEvents("GET")' = TrailEvents("GET") ]_vars
    /\ [][ ~(DownloadMismatch /\ acq.pc = "raised") ]_vars
    /\ [](DownloadMismatch => acq.pc \in {"verify", "raised"})

\* C18 witness: a body with another digest arrived while the cache held an
\* older file of that name; the call has raised and the older file is there
C18_Witness ==
    /\ DownloadMismatch
    /\ acq.pc = "raised"
    /\ acq.error = "DownloadFailure"
    /\ acq.collection_cache
    /\ cachedir[CollectionFile] # None
    /\ cachedir[CollectionFile] # acq.served
    /\ trail[Len(trail)] = VerifyEvent("download", CollectionFile, FALSE)

\* retrieve has written a response body that does not have the digests the
\* package index reported for the file
RetrieveMismatch ==
    /\ acq.kind = "retrieve"
    /\ acq.served # None
    /\ \E k \in DOMAIN acq.release.digests :
          acq.release.digests[k] # DigestOf(k, Get(acq.served))

\* C19: a tarball that retrieve downloaded and that does not have the
\* reported digests is not returned and not written into the core cache: the
\* call has checked the digest of the download and has raised.
C19_CoreDownloadVerified ==
    RetrieveMismatch =>
       /\ acq.pc = "raised"
       /\ acq.result = None
       /\ CacheUntouched
       /\ \E i \in TrailEvents("verify") : trail[i].target = "download"

\* the file records of the requested version whose filename is one of the
\* two spellings, by their place in the list of the package index
MatchingRecords ==
    IF registry.releases = None THEN {}
    ELSE {i \in 1 .. Len(Get(registry.releases)) :
             Get(registry.releases)[i].filename \in Spellings}

\* retrieve has read the release information of the package index
ReleaseInfoRead ==
    /\ acq.kind = "retrieve"
    /\ \E i \in TrailEvents("GET") :
          trail[i].target = "release_info" /\ trail[i].detail = "200"

\* C22: retrieve goes on with a file record only if exactly one record of the
\* version has one of the two file names; with no such record, with the
\* version not listed, or with more than one such record, the call has
\* raised and has neither sent a download request nor written a file.
C22_ExactlyOneRecord ==
    ReleaseInfoRead =>
       IF Cardinality(MatchingRecords) = 1
       THEN acq.release = Get(registry.releases)[CHOOSE i \in MatchingRecords : TRUE]
       ELSE /\ acq.pc = "raised"
            /\ acq.release = NoRelease
            /\ \A i \in TrailEvents("GET") : trail[i].target # "download"
            /\ destdir = NoFiles

\* the step of download an entry of the history belongs to
StepRank(e) ==
    CASE e.ev = "GET" /\ e.target = "release_info" -> 1
      [] e.ev = "verify" /\ e.target = "cache" -> 2
      [] e.ev = "copy" /\ e.target = "cache->dest" -> 2
      [] e.ev = "GET" /\ e.target = "download" -> 3
      [] e.ev = "verify" /\ e.target = "download" -> 4
      [] e.ev = "copy" /\ e.target = "dest->cache" -> 5
      [] OTHER -> 0

\* the GETs of the download URL in the history
DownloadGets == {i \in TrailEvents("GET") : trail[i].target = "download"}

\* the entries of the history where the cached copy failed its digest check
CacheCheckFailed ==
    {i \in TrailEvents("verify") : trail[i].target = "cache" /\ trail[i].detail = "mismatch"}

\* the file name holds, in the given directory, the content whose sha256
\* digest the release information reports
HoldsReported(files, name) ==
    /\ files[name] # None
    /\ acq.release.digests["sha256"] = WholeDigest("sha256", Get(files[name]))

\* C25: in a CollectionDownloader.download call the entries of the history
\* are in the order release information, cache check, download, verification,
\* cache write; every GET of the download URL comes after a failed digest
\* check of the cached copy, or the check was skipped because no cache is
\* set or the cache has no file of that name; the cache is written directly
\* after a successful verification of the downloaded file and then holds
\* the content with the reported digest; a call that downloaded returns the
\* path with the verification passed and, when a cache is set, with the cache
\* write as its last step.
C25_DownloadStepOrder ==
    acq.kind = "download" =>
       /\ \A i, j \in 1 .. Len(trail) :
              i < j => StepRank(trail[i]) > 0 /\ StepRank(trail[i]) <= StepRank(trail[j])
       /\ \A i \in DownloadGets :
              /\ \E j \in 1 .. i - 1 : StepRank(trail[j]) = 1 /\ trail[j].detail = "200"
              /\ \A j \in TrailEvents("verify") :
                     trail[j].target = "cache" => j < i /\ trail[j].detail = "mismatch"
              /\ ( /\ CacheUntouched
                   /\ acq.collection_cache
                   /\ cachedir[acq.release.filename] # None ) => CacheCheckFailed # {}
       /\ \A i \in TrailEvents("copy") :
              trail[i].target = "dest->cache" =>
                 /\ i = Len(trail)
                 /\ trail[i - 1] = VerifyEvent("download", acq.release.filename, TRUE)
                 /\ HoldsReported(destdir, acq.release.filename)
                 /\ HoldsReported(cachedir, acq.release.filename)
                 /\ acq.collection_cache
       /\ (acq.pc = "done" /\ DownloadGets # {}) =>
              /\ HoldsReported(destdir, acq.release.filename)
              /\ IF acq.collection_cache
                 THEN trail[Len(trail)] = CopyEvent("dest->cache", acq.release.filename)
                 ELSE trail[Len(trail)] =
                         VerifyEvent("download", acq.release.filename, TRUE)
       /\ (acq.pc = "done" /\ DownloadGets = {}) =>
              trail[Len(trail)] = CopyEvent("cache->dest", acq.release.filename)

\* C25 witness: a download found a stale copy in its cache, downloaded the
\* file after a retried GET, verified it, replaced the stale copy and returned
C25_Witness ==
    /\ acq.kind = "download"
    /\ acq.pc = "done"
    /\ CacheCheckFailed # {}
    /\ Cardinality(DownloadGets) > 1
    /\ trail[Len(trail)] = CopyEvent("dest->cache", acq.release.filename)
    /\ cachedir[acq.release.filename] = destdir[acq.release.filename]

(***************************************************************************)
(* Claims about GalaxyClient.get_versions, checked under SpecVersions.     *)
(***************************************************************************)
\* the GETs of the history that went to one URL
RequestsTo(url) == {i \in 1 .. Len(requests) : requests[i].url = url}

\* the URL get_versions starts from
FirstPageUrl == UrlJoin(GalaxyServer, PagePath(Get(lister.context).version, 1))

\* C8: a page request of get_versions that answers 404 is the last GET of the
\* call, whichever page of the chain it asked for: the call has raised
\* NoSuchCollection and returned no list, and a page whose first attempt
\* answered 404 was asked for exactly once.
C8_NotFoundEndsListing ==
    \A i \in 1 .. Len(requests) :
       requests[i].status = "404" =>
          /\ i = Len(requests)
          /\ lister.pc = "raised"
          /\ lister.error = "NoSuchCollection"
          /\ lister.retval = None
          /\ requests[i].attempt = 1 => Cardinality(RequestsTo(requests[i].url)) = 1

\* C8 witness: with retries allowed, a followed `next` link was answered 404
\* after an earlier page had listed versions
C8_Witness ==
    /\ lib_ctx.max_retries > 1
    /\ Len(requests) > 1
    /\ requests[Len(requests)].status = "404"
    /\ requests[Len(requests)].attempt = 1
    /\ requests[Len(requests)].url # FirstPageUrl
    /\ requests[1].status = "200"
    /\ pages[1].results # Some(<<>>)
    /\ lister.error = "NoSuchCollection"

\* the names of the query parameters a request was sent with
ParamNames(request) ==
    IF request.params = None THEN {} ELSE {kv[1] : kv \in Get(request.params)}

\* C23: every GET of a V2 client, for the first page and for every followed
\* next link, carries format=json and page_size=100; a V3 client sends
\* limit=50 with the GETs for the first page and no limit parameter (no
\* parameters at all) with the GETs for a followed next link.
C23_PageSizeParameters ==
    lister.context # None =>
       \A i \in 1 .. Len(requests) :
          IF Get(lister.context).version = "V2"
          THEN requests[i].params = Some({<<"format", "json">>, <<"page_size", "100">>})
          ELSE IF requests[i].url = FirstPageUrl
          THEN requests[i].params = Some({<<"limit", "50">>})
          ELSE "limit" \notin ParamNames(requests[i]) /\ requests[i].params = None

\* C23 witness: a V3 client has followed two next links of a chain of three
\* pages and got its list
C23_Witness ==
    /\ lister.pc = "returned"
    /\ Get(lister.context).version = "V3"
    /\ Len(pages) = 3
    /\ Cardinality({requests[i].url : i \in 1 .. Len(requests)}) = 3
    /\ requests[1].params = Some({<<"limit", "50">>})
    /\ requests[Len(requests)].params = None

\* the version strings the server lists on a page, in the page's order
PageStrings(document) ==
    LET records == IF document.results # None
                   THEN Get(document.results) ELSE Get(document.data)
    IN  [i \in 1 .. Len(records) |-> records[i].version]

\* the version strings of pages p .. of a chain, page after page
RECURSIVE ConcatPages(_, _)
ConcatPages(chain, p) ==
    IF p > Len(chain) THEN <<>>
    ELSE PageStrings(chain[p]) \o ConcatPages(chain, p + 1)

\* the URL of page p of the chain
PageUrl(p) == UrlJoin(GalaxyServer, PagePath(Get(lister.context).version, p))

\* the GETs that were answered with a page
ServedRequests == SelectSeq(requests, LAMBDA r : r.status = "200")

\* the GETs for one page are the attempts 1, 2, .. of one retry_get call: once
\* another page was asked for, no GET goes to the page again
OneCallPerPage ==
    \A i \in 1 .. Len(requests) :
       IF requests[i].attempt = 1
       THEN \A j \in 1 .. i - 1 : requests[j].url # requests[i].url
       ELSE /\ i > 1
            /\ requests[i - 1].url = requests[i].url
            /\ requests[i - 1].attempt + 1 = requests[i].attempt
            /\ requests[i - 1].status # "200"

\* a get_versions call that returned has read every page of the chain once,
\* first to last, and returns the pages' version strings in that order
ReturnsConcatenation ==
    lister.pc = "returned" =>
       /\ lister.retval = Some(ConcatPages(pages, 1))
       /\ Len(ServedRequests) = Len(pages)
       /\ \A p \in 1 .. Len(pages) : ServedRequests[p].url = PageUrl(p)
       /\ requests[Len(requests)].url = PageUrl(Len(pages))

\* a get_versions call raises only when a page request failed
RaisesOnFailedRequest ==
    lister.pc = "raised" =>
       /\ requests # <<>>
       /\ requests[Len(requests)].status # "200"
       /\ lister.retval = None

\* C24: for every chain of up to MaxPages pages whose last page has a null or
\* an empty `next`, get_versions ends; unless a page request failed it
\* returns the concatenation of the version strings of all the pages, in
\* page order and in the order within each page; each page is the object of
\* one retry_get call and is read once, and the last GET is the one for the
\* first page whose `next` is null or empty.
C24_ExactConcatenation ==
    /\ [](ReturnsConcatenation /\ OneCallPerPage /\ RaisesOnFailedRequest)
    /\ <>(lister.pc \in {"returned", "raised"})

\* C24 witness: a chain of three pages, each listing versions and not all the
\* same ones, was read to its end, a retried attempt included
C24_Witness ==
    /\ lister.pc = "returned"
    /\ Len(pages) = 3
    /\ \A p \in 1 .. 3 : PageStrings(pages[p]) # <<>>
    /\ PageStrings(pages[1]) # PageStrings(pages[2])
    /\ Len(requests) > 3
    /\ Len(Get(lister.retval)) >= 4

(***************************************************************************)
(* Claims about get_latest_matching_version, checked under SpecLatest.     *)
(***************************************************************************)
\* the versions the registry listed, in no order
Listed == {Version(latest.versions[i]) : i \in 1 .. Len(latest.versions)}

\* the listed stable versions that satisfy the constraint
StableMatches == {v \in Listed : v \in latest.version_spec /\ v.prerelease = <<>>}

\* the listed prereleases that satisfy the constraint
PrereleaseMatches == {v \in Listed : v \in latest.version_spec /\ v.prerelease # <<>>}

\* the largest version of a set that is not empty
Highest(S) == CHOOSE v \in S : \A w \in S : ~VersionLess(v, w)

\* the call has finished
LatestDone == latest.pc \in {"returned", "raised"}

\* a stable version and a higher prerelease both satisfy the constraint
StableBelowPrerelease ==
    \E V1 \in StableMatches, V2 \in PrereleaseMatches : VersionLess(V1, V2)

\* C10: with pre=True, when a stable version and a higher prerelease both
\* satisfy the constraint, the call returns the highest satisfying stable
\* version, which is a function of the set of listed versions and so does not
\* depend on the order of the list, and never a prerelease.
C10_StablePreferred ==
    (LatestDone /\ latest.pre /\ StableBelowPrerelease) =>
       /\ latest.pc = "returned"
       /\ latest.result = Some(Highest(StableMatches))
       /\ Get(latest.result) \notin PrereleaseMatches

\* C10 witness: the call has returned for a list in which the prerelease
\* comes first and the stable versions are in ascending order
C10_Witness ==
    /\ latest.pc = "returned"
    /\ latest.pre
    /\ StableBelowPrerelease
    /\ latest.versions = <<"2.1.0-b2", "1.0.0", "2.0.0">>
    /\ Cardinality(StableMatches) = 2
    /\ latest.result = Some(Version("2.0.0"))

\* C11: when only prereleases satisfy the constraint, the call raises
\* NoSuchVersion with pre=False and returns the highest satisfying prerelease
\* with pre=True; when no listed version satisfies it, the call raises
\* NoSuchVersion whatever pre is.
C11_PrereleaseOnly ==
    (LatestDone /\ StableMatches = {}) =>
       IF PrereleaseMatches # {} /\ latest.pre
       THEN /\ latest.pc = "returned"
            /\ latest.result = Some(Highest(PrereleaseMatches))
       ELSE /\ latest.pc = "raised"
            /\ latest.error = "NoSuchVersion"
            /\ latest.result = None

\* C11 witness: two prereleases listed in ascending order and a stable
\* version outside the constraint; pre=False has raised
C11_Witness ==
    /\ latest.pc = "raised"
    /\ ~latest.pre
    /\ latest.versions = <<"2.0.0-a1", "2.0.0", "2.0.0-a2">>
    /\ latest.version_spec = {Version("2.0.0-a1"), Version("2.0.0-a2")}
    /\ latest.error = "NoSuchVersion"

\* C29: download_latest_matching resolves with prereleases disallowed; when
\* no stable version satisfies the constraint (only prereleases do, or
\* nothing does) it raises NoSuchVersion and no release-information or
\* download GET is sent; the version it asks release information for is the
\* highest listed stable version that satisfies the constraint, and when it
\* returns, the path is the file written for exactly that version.
C29_StableVersionDownloaded ==
    (acq.kind = "download" /\ latest.pc # "idle") =>
       /\ ~latest.pre
       /\ (LatestDone /\ StableMatches = {}) =>
             /\ latest.pc = "raised"
             /\ latest.error = "NoSuchVersion"
             /\ trail = <<>>
             /\ destdir = NoFiles
             /\ acq.pc \in {"resolve", "raised"}
             /\ acq.pc = "raised" => acq.error = "NoSuchVersion"
       /\ acq.pc # "resolve" /\ latest.pc = "returned" =>
             /\ StableMatches # {}
             /\ Get(latest.result) = Highest(StableMatches)
             /\ Get(latest.result).prerelease = <<>>
             /\ Version(acq.version) = Get(latest.result)
       /\ trail # <<>> => (latest.pc = "returned" /\ acq.version \in VersionStrings)
       /\ \A name \in FileNames :
             destdir[name] # None => name = CollectionFileOf(acq.version)
       /\ acq.pc \in {"cache", "get", "verify", "done"} =>
             acq.release.filename = CollectionFileOf(acq.version)
       /\ acq.pc = "done" =>
             /\ acq.result = Some(CollectionFileOf(acq.version))
             /\ destdir[CollectionFileOf(acq.version)] = Some(Artifact)

\* C29 witness: 2.0.0 and the higher prerelease 2.1.0-b2 both satisfy the
\* constraint, and the file of 2.0.0 was downloaded and returned
C29_Witness ==
    /\ acq.pc = "done"
    /\ latest.versions = <<"2.1.0-b2", "2.0.0", "1.0.0">>
    /\ latest.version_spec = {Version("2.1.0-b2"), Version("2.0.0")}
    /\ latest.result = Some(Version("2.0.0"))
    /\ acq.result = Some("community-general-2.0.0.tar.gz")
    /\ destdir["community-general-2.0.0.tar.gz"] = Some(Artifact)

(***************************************************************************)
(* Claims about verify_hash and verify_a_hash, checked under SpecHashing.  *)
(***************************************************************************)
\* the call of the named function has returned
HashingDone(fn) == hashing.pc = "returned" /\ hashing.fn = fn

\* the digest under a key of the map is the digest of the file
KeyCorrect(key, algorithm) ==
    /\ key \in DOMAIN hashing.hash_digests
    /\ hashing.hash_digests[key] = WholeDigest(algorithm, hashing.content)

\* C13: verify_a_hash is verify_hash with the first algorithm of (sha256,
\* blake2b_256) that is a key of the digests and ignores every other entry:
\* with sha256 present the result is whether the sha256 digest is correct,
\* with only blake2b_256 of the two whether that one is correct, and with
\* neither key present the result is false.
C13_FirstPreferredDecides ==
    HashingDone("verify_a_hash") =>
       hashing.result =
          IF "sha256" \in DOMAIN hashing.hash_digests
          THEN KeyCorrect("sha256", "sha256")
          ELSE IF "blake2b_256" \in DOMAIN hashing.hash_digests
          THEN KeyCorrect("blake2b_256", "blake2b")
          ELSE FALSE

\* C13 witness: a file longer than a chunk, a wrong sha256 digest and a
\* correct blake2b_256 digest: the answer was false
C13_Witness ==
    /\ HashingDone("verify_a_hash")
    /\ Len(hashing.content) > hashing.chunksize
    /\ DOMAIN hashing.hash_digests = {"sha256", "blake2b_256", "md5"}
    /\ ~KeyCorrect("sha256", "sha256")
    /\ KeyCorrect("blake2b_256", "blake2b")
    /\ ~hashing.result

\* C14: verify_hash returns true exactly if the expected digest is the digest
\* of the whole content under the algorithm asked for, and returns false
\* otherwise; the chunk size does not enter into the result.
C14_VerifyHashExact ==
    HashingDone("verify_hash") =>
       hashing.result = (hashing.hash_digest = WholeDigest(hashing.algorithm, hashing.content))

\* C14 witness: a file of several chunks was verified against its own digest
C14_Witness ==
    /\ HashingDone("verify_hash")
    /\ Len(hashing.content) > 2 * hashing.chunksize
    /\ hashing.hash_digest = WholeDigest(hashing.algorithm, hashing.content)
    /\ hashing.result

(***************************************************************************)
(* Claims about get_ansible_core, checked under SpecCore and SpecCoreLive. *)
(***************************************************************************)
SelectorStates == {"DEVEL", "LATEST", "EXACT"}
RouteStates == {"USE_LOCAL_SOURCE", "BUILD_FROM_CLONE", "DOWNLOAD_FROM_INDEX"}

\* the positions of the history that hold a state of the given set
VisitsOf(S) == {i \in 1 .. Len(visited) : visited[i] \in S}

\* the call has returned or raised
CoreEnded == core.pc \in {"done", "raised"}

\* no state of the acquirer was entered twice
NoRevisit == \A i, j \in 1 .. Len(visited) : visited[i] = visited[j] => i = j

\* the history so far is a beginning of START, one selector, one route, DONE
LinearPath ==
    /\ visited # <<>> /\ visited[1] = "START"
    /\ NoRevisit
    /\ Cardinality(VisitsOf(SelectorStates)) <= 1
    /\ Cardinality(VisitsOf(RouteStates)) <= 1
    /\ \A i \in VisitsOf(SelectorStates) : i = 2
    /\ \A i \in VisitsOf(RouteStates) : i = 3
    /\ \A i \in VisitsOf({"DONE"}) : i = 4 /\ i = Len(visited)

\* the call ended in its selector state: the version string is no version,
\* or the latest version could not be got from the index
EndedInSelector ==
    /\ core.pc = "raised"
    /\ \/ visited = <<"START", "EXACT">> /\ core.error = "InvalidVersion"
       \/ visited = <<"START", "LATEST">> /\ core.error = "RuntimeError"

\* C20 as stated: a call that has ended went through exactly one selector
\* state and exactly one route, each state once.
C20_OneSelectorOneRoute ==
    CoreEnded =>
       /\ NoRevisit
       /\ Cardinality(VisitsOf(SelectorStates)) = 1
       /\ Cardinality(VisitsOf(RouteStates)) = 1

\* C20 amended: every call goes through START, one selector state, at most
\* one route and DONE in that order and enters no state twice; it ends, by
\* returning one install file after exactly one route, or by raising, and a
\* call that raises has taken exactly one route unless it ended in its
\* selector state.
C20_LinearPathEnds ==
    /\ [](LinearPath)
    /\ [](core.pc = "done" =>
             /\ Len(visited) = 4 /\ visited[4] = "DONE"
             /\ core.install_file # None
             /\ core.error = "")
    /\ [](core.pc = "raised" =>
             /\ core.install_file = None
             /\ core.error # ""
             /\ Cardinality(VisitsOf(SelectorStates)) = 1
             /\ Cardinality(VisitsOf(RouteStates)) = 1 \/ EndedInSelector)
    /\ <>CoreEnded

\* C20 witness: '@devel' without a usable source tree went through the clone
\* and the build and returned the sdist
C20_Witness ==
    /\ core.pc = "done"
    /\ visited = <<"START", "DEVEL", "BUILD_FROM_CLONE", "DONE">>
    /\ core.install_file = Some([sdist |-> "tmpdir/ansible-core"])

\* the version the source tree declares, when there is a tree and its
\* release.py can be read
DeclaredVersions ==
    IF core.ansible_core_source = None THEN {}
    ELSE IF Get(core.ansible_core_source).version = None THEN {}
    ELSE {PypiVersions[Get(Get(core.ansible_core_source).version)]}

\* the tree declares the major and minor that were asked for and a patch that
\* is not lower
TreeCompatible ==
    \E declared \in DeclaredVersions :
       /\ declared.major = Get(core.pypi_version).major
       /\ declared.minor = Get(core.pypi_version).minor
       /\ declared.micro >= Get(core.pypi_version).micro

\* C21: once an exact selector is parsed or '@latest' is resolved, the call
\* takes the route USE_LOCAL_SOURCE, and never DOWNLOAD_FROM_INDEX, exactly
\* when the source tree declares the same major and minor and a patch that is
\* not lower; otherwise it takes DOWNLOAD_FROM_INDEX, and what it returns is
\* the sdist built from the tree or the file retrieve got for the version
\* asked for.
C21_CompatibleTreeIsBuilt ==
    (core.ansible_core_version # "@devel" /\ core.pypi_version # None) =>
       /\ core.ansible_core_version # "@latest" =>
             Get(core.pypi_version).public = core.ansible_core_version
       /\ Len(visited) >= 3
       /\ visited[3] = (IF TreeCompatible THEN "USE_LOCAL_SOURCE" ELSE "DOWNLOAD_FROM_INDEX")
       /\ core.pc = "done" =>
             core.install_file =
                IF TreeCompatible
                THEN Some([sdist |-> Get(core.ansible_core_source).path])
                ELSE Some([tarball |-> Get(core.pypi_version).public])

\* C21 witness: '@latest' resolved to 2.15.1 and the tree declares 2.15.0, a
\* lower patch: the file came from retrieve
C21_Witness ==
    /\ core.ansible_core_version = "@latest"
    /\ core.pypi_version = Some(PypiVersions["2.15.1"])
    /\ DeclaredVersions = {PypiVersions["2.15.0"]}
    /\ core.pc = "done"
    /\ visited = <<"START", "LATEST", "DOWNLOAD_FROM_INDEX", "DONE">>
    /\ core.install_file = Some([tarball |-> "2.15.1"])

\* the version string release.py of the source tree declares, as written
DeclaredTexts ==
    IF core.ansible_core_source = None THEN {}
    ELSE IF Get(core.ansible_core_source).version = None THEN {}
    ELSE {Get(Get(core.ansible_core_source).version)}

\* what get_ansible_core does for '@devel', given whether the tree is taken
\* for a devel tree: no package index, no core cache, the tree or one clone
DevelRoutes(tree_is_devel) ==
    (core.ansible_core_version = "@devel" /\ core.pc # "start") =>
       /\ Len(visited) >= 3
       /\ visited[2] = "DEVEL"
       /\ core.pc \notin {"latest", "retrieve"}
       /\ core.pypi_version = None
       /\ \A i \in 1 .. Len(visited) : visited[i] # "DOWNLOAD_FROM_INDEX"
       /\ trail = <<>> /\ cachedir = NoFiles
       /\ IF tree_is_devel
          THEN /\ visited[3] = "USE_LOCAL_SOURCE"
               /\ \A i \in 1 .. Len(visited) : visited[i] # "BUILD_FROM_CLONE"
               /\ core.source_location = Get(core.ansible_core_source).path
          ELSE /\ visited[3] = "BUILD_FROM_CLONE"
               /\ Cardinality(VisitsOf({"BUILD_FROM_CLONE"})) = 1
               /\ \A i \in 1 .. Len(visited) : visited[i] # "USE_LOCAL_SOURCE"
               /\ core.source_location \in {"", "tmpdir/ansible-core"}
       /\ core.pc = "done" =>
             core.install_file = Some([sdist |-> core.source_location])
       /\ core.pc \in {"build", "done"} => core.source_location # ""

\* C26 as stated: with '@devel' the call builds from the source tree, without
\* cloning, exactly when the version string the tree declares ends, as
\* written, in '.dev<digits>'; otherwise it clones once and builds from the
\* clone; it never goes to the package index or the core cache.
C26_DeclaredTextDecides ==
    DevelRoutes(\E text \in DeclaredTexts : MatchesDevPattern(text))

\* C26: with '@devel' the call builds from the source tree, without cloning,
\* exactly when the public form of the version the tree declares (the
\* normalised text without the local segment) ends in '.dev<digits>';
\* otherwise (no tree, unreadable version, another version) it clones once
\* and builds from the clone; it never goes to the package index or the core
\* cache.
C26_PublicVersionDecides ==
    DevelRoutes(\E declared \in DeclaredVersions : MatchesDevPattern(declared.public))

\* C26 witness: a tree that declares 2.16.0.dev0+local was built from, no
\* clone made
C26_Witness ==
    /\ core.ansible_core_version = "@devel"
    /\ DeclaredTexts = {"2.16.0.dev0+local"}
    /\ core.pc = "done"
    /\ visited = <<"START", "DEVEL", "USE_LOCAL_SOURCE", "DONE">>
    /\ core.install_file = Some([sdist |-> "src"])

(***************************************************************************)
(* Claims about retry_get, checked under SpecRetry.                        *)
(***************************************************************************)
\* the max_retries value the caller asked for (argument, or lib_ctx default)
GivenRetries ==
    IF given.max_retries = None THEN given.lib_ctx_max_retries
    ELSE Get(given.max_retries)

\* max(max_retries, 1)
RetryCap == IF GivenRetries > 1 THEN GivenRetries ELSE 1

\* __aenter__ has returned or raised
RetrySettled == mgr.pc \in {"entered", "raised", "exited"}

\* every attempt issued so far has been dealt with by __aenter__
RetryProcessed == mgr.pc \notin {"got", "failed"}

\* the attempt answered with a status that the caller accepts
IsAcceptedOutcome(o) ==
    /\ o.kind = "status"
    /\ o.code < 400 \/ o.code \in mgr.acceptable_error_codes

\* the string that describes a failed attempt
FailureString(o) ==
    CASE o.kind = "status" -> ToString(o.code)
      [] o.kind = "timeout" -> "timeout"
      [] OTHER -> o.text

\* C3: a retry_get call issues at most max(max_retries, 1) GET attempts, for
\* every max_retries value (0 and negative ones included) and every sequence
\* of responses, timeouts and failures; with max_retries <= 1 a call that has
\* returned or raised has made exactly one attempt.
C3_AttemptsCapped ==
    /\ Len(outcomes) <= RetryCap
    /\ (RetrySettled /\ GivenRetries <= 1) => Len(outcomes) = 1

C3_Witness ==
    /\ GivenRetries <= 0
    /\ mgr.pc = "raised"
    /\ Len(outcomes) = 1

\* C4: when attempts 1..N-1 time out and attempt N (N <= max(max_retries, 1))
\* answers with an accepted status, the call returns that response without
\* raising and has issued exactly N attempts; while only timeouts were seen
\* and attempts are left, the call has not raised.
C4_TimeoutsThenSuccess ==
    /\ \A N \in 1 .. Len(outcomes) :
          ( /\ \A i \in 1 .. (N - 1) : outcomes[i].kind = "timeout"
            /\ IsAcceptedOutcome(outcomes[N])
            /\ RetryProcessed )
          => /\ Len(outcomes) = N
             /\ N <= RetryCap
             /\ mgr.pc \in {"entered", "exited"}
             /\ mgr.returned = Some(outcomes[N].code)
             /\ mgr.raises = 0
    /\ ( /\ \A i \in 1 .. Len(outcomes) : outcomes[i].kind = "timeout"
         /\ Len(outcomes) < RetryCap )
       => mgr.pc # "raised"

C4_Witness ==
    /\ Len(outcomes) = MaxRetries
    /\ \A i \in 1 .. (MaxRetries - 1) : outcomes[i].kind = "timeout"
    /\ IsAcceptedOutcome(outcomes[MaxRetries])
    /\ mgr.pc = "entered"
    /\ mgr.returned = Some(outcomes[MaxRetries].code)

\* C5: when every one of the max(max_retries, 1) attempts fails, the call
\* raises exactly one RuntimeError, whose message lists one failure string
\* per attempt, in attempt order; and the call raises in no other case.
C5_AggregatedError ==
    /\ ( /\ Len(outcomes) = RetryCap
         /\ \A i \in 1 .. Len(outcomes) : ~IsAcceptedOutcome(outcomes[i])
         /\ RetryProcessed )
       => mgr.pc = "raised"
    /\ mgr.pc = "raised"
       => /\ mgr.raises = 1
          /\ Len(outcomes) = RetryCap
          /\ mgr.message = Some([i \in 1 .. Len(outcomes) |-> FailureString(outcomes[i])])
    /\ mgr.pc # "raised" => (mgr.raises = 0 /\ mgr.message = None)

C5_Witness ==
    /\ mgr.pc = "raised"
    /\ Len(outcomes) = MaxRetries
    /\ outcomes[1].kind = "status"
    /\ outcomes[2].kind = "timeout"
    /\ outcomes[3].kind = "error"

\* C6: an attempt whose status is < 400 or among acceptable_error_codes ends
\* the call successfully: the response is handed back with its status, no
\* further attempt is issued and nothing is added to the failure list; a
\* response with any other status is a failed attempt and is not returned.
C6_SuccessCondition ==
    RetryProcessed =>
       /\ \A i \in 1 .. Len(outcomes) :
             IF IsAcceptedOutcome(outcomes[i])
             THEN /\ i = Len(outcomes)
                  /\ mgr.pc \in {"entered", "exited"}
                  /\ mgr.returned = Some(outcomes[i].code)
                  /\ Len(mgr.errors) = i - 1
             ELSE /\ i <= Len(mgr.errors)
                  /\ mgr.errors[i] = FailureString(outcomes[i])
       /\ mgr.returned # None =>
             /\ Len(outcomes) > 0
             /\ IsAcceptedOutcome(outcomes[Len(outcomes)])
             /\ mgr.returned = Some(outcomes[Len(outcomes)].code)

C6_Witness ==
    /\ mgr.pc = "entered"
    /\ Len(outcomes) = 2
    /\ outcomes[1] = StatusOutcome(400)
    /\ outcomes[2] = StatusOutcome(404)
    /\ mgr.returned = Some(404)
    /\ mgr.errors = <<"400">>

\* C7: a call never holds more than one open response; a response rejected
\* for its status is closed before the next attempt starts; the accepted
\* response is closed when the async-with scope has exited, whether the body
\* completed or raised; at the end every response obtained has been closed.
C7_ResponsesClosed ==
    /\ mgr.open \in {0, 1}
    /\ mgr.pc \in {"init", "get", "failed", "sleep", "raised", "exited"} => mgr.open = 0
    /\ mgr.pc \in {"got", "entered"} => mgr.open = 1
    /\ mgr.pc \in {"raised", "exited"} =>
          mgr.closed = Cardinality({i \in 1 .. Len(outcomes) : outcomes[i].kind = "status"})

C7_Witness ==
    /\ mgr.pc = "exited"
    /\ body = "raised"
    /\ mgr.closed = 2
    /\ mgr.open = 0

\* the attempts that were not answered with an accepted status
FailedAttempts == {i \in 1 .. Len(outcomes) : ~IsAcceptedOutcome(outcomes[i])}

\* C27: at every point of a retry_get call where each issued attempt has been
\* dealt with, warnings.warn was called once per failed attempt, the attempt
\* that uses up the retries included: k failed attempts make k warnings,
\* whether the call returns in the end or raises, and an accepted attempt
\* makes none.
C27_WarningPerFailure ==
    /\ RetryProcessed => mgr.warnings = Cardinality(FailedAttempts)
    /\ mgr.pc \in {"entered", "exited"} => mgr.warnings = Len(outcomes) - 1
    /\ mgr.pc = "raised" => mgr.warnings = Len(outcomes)

\* C27 witness: three attempts failed, the third one used up the retries, and
\* three warnings were made
C27_Witness ==
    /\ mgr.pc = "raised"
    /\ Cardinality(FailedAttempts) = MaxRetries
    /\ mgr.warnings = MaxRetries

(***************************************************************************)
(* Claims about concurrent retrieve calls, checked under SpecShared.       *)
(***************************************************************************)
\* C30: for two retrieve calls for the same version that run as concurrent
\* tasks and share the core cache directory, with the cache trusted or not
\* and under every interleaving of their chunk reads and writes, a call that
\* has returned hands back a file that holds the complete artifact.
C30_CompleteArtifactReturned ==
    \A t \in Retrievers :
       retrievers[t].pc = "done" => retrievers[t].result = Some(Artifact)


=============================================================================
